---- MODULE Spec2Model ----
(***************************************************************************)
(* Order-management service: the cache-aside protocol of OrdersRepository  *)
(* (app/repositories/orders.py) over the SQL store and the Redis cache,     *)
(* the authorization layer of OrdersService (app/services/orders.py) and    *)
(* the publication of new_order events.                                     *)
(*                                                                          *)
(* Every request is a task of its own; each await of the code (a store     *)
(* call, a cache call, a publish) is one atomic step of that task.          *)
(***************************************************************************)
EXTENDS Integers, Sequences, FiniteSets, TLC

\* ------------------------------------------------------------------ bounds

\* Concurrent request tasks.
NumReq == 2
\* Calls started in one behaviour.
MaxCalls == 4
\* Requests to the service started in one behaviour of Spec.
MaxRequests == 3
\* Order rows the store can hold (order ids are 1..MaxOrders).
MaxOrders == 2
\* Lifetime of a cache entry, in clock ticks (settings.cache_ttl_seconds).
CacheTtl == 1

\* Requests per client and window the middleware forwards
\* (settings.rate_limit_per_minute; the test sets 2).
RateLimit == 2
\* Length of a bucket window in clock ticks (60.0 seconds in the code).
Window == 2
\* The clock stops after this many ticks.
MaxNow == 5
\* Requests dispatched in one behaviour.
MaxHits == 5
\* The deadline of connect_rabbit in clock ticks (60 seconds in the code).
ConnectDeadline == 3
\* The longest a connection attempt takes, in clock ticks.
MaxConnectTime == 1
\* Messages other producers put on the queue in one behaviour.
MaxForeign == 1

Req == 1..NumReq
OrderIds == 1..MaxOrders
Users == {1, 2}
Statuses == {"PENDING", "PAID", "SHIPPED", "CANCELED"}
\* Statuses the modelled clients ask for in an update.
StatusInputs == {"PAID", "CANCELED"}
\* OrderCreate payloads (items, total_price > 0).
Payloads == {[items |-> "sku_x", total_price |-> 12]}
\* request.client.host of the callers ("unknown" when there is no client).
Clients == {"10.0.0.1", "unknown"}

\* ------------------------------------------------------------- data model

\* No ORM object / no read model (Python None).
NullOrder ==
  [id |-> 0, user_id |-> 0, items |-> "", total_price |-> 0,
   status |-> "", created_at |-> 0]

\* The order inserted as already paid, for the first user.
NewOrderPaid(id, user_id, data, at) ==
  [id |-> id, user_id |-> 1, items |-> data.items,
   total_price |-> data.total_price, status |-> "PAID", created_at |-> at]

\* Order(user_id, items, total_price, status="PENDING") with the column
\* defaults of the INSERT: a fresh id and created_at.
NewOrder(id, user_id, data, at) ==
  [id |-> id, user_id |-> user_id, items |-> data.items,
   total_price |-> data.total_price, status |-> "PENDING", created_at |-> at]

\* OrderRead.model_validate(order, from_attributes=True)
OrderRead(o) ==
  [id |-> o.id, user_id |-> o.user_id, items |-> o.items,
   total_price |-> o.total_price, status |-> o.status,
   created_at |-> o.created_at]

\* value.model_dump_json(): the JSON text, field after field.
ModelDumpJson(v) ==
  <<v.id, v.user_id, v.items, v.total_price, v.status, v.created_at>>

\* model.model_validate_json(raw)
ModelValidateJson(raw) ==
  [id |-> raw[1], user_id |-> raw[2], items |-> raw[3],
   total_price |-> raw[4], status |-> raw[5], created_at |-> raw[6]]

\* cache_key(prefix, entity_id) = f"{prefix}:{entity_id}"
cache_key(prefix, entity_id) == <<prefix, entity_id>>

\* One key for every order.
OrderCacheKeyShared(order_id) == cache_key("order", 1)

\* OrdersRepository._order_cache_key
OrderCacheKey(order_id) == cache_key("order", order_id)

CacheKeys == {OrderCacheKey(id) : id \in OrderIds}

\* A key Redis does not hold.
NoEntry == [raw |-> <<>>, ttl |-> 0]


\* ------------------------------------------------------------------ Redis

\* redis.get(key): the stored text, or <<>> (None) for a key that is absent
\* or expired.
RedisGet(c, key) == IF c[key].ttl > 0 THEN c[key].raw ELSE <<>>

\* redis.setex(name, time, value): replaces the entry, expiry `time` from now.
RedisSetex(c, name, time, value) ==
  [c EXCEPT ![name] = [raw |-> value, ttl |-> time]]

\* redis.delete(key): no error for an absent key.
RedisDelete(c, key) == [c EXCEPT ![key] = NoEntry]

\* The entry written with a longer lifetime than configured.
set_cachedLonger(c, key, value, ttl_seconds) ==
  RedisSetex(c, key, ttl_seconds + 1, ModelDumpJson(value))

\* The entry written with no lifetime left.
set_cachedExpired(c, key, value, ttl_seconds) ==
  RedisSetex(c, key, 0, ModelDumpJson(value))

\* set_cached(redis, key, value, ttl_seconds)
set_cached(c, key, value, ttl_seconds) ==
  RedisSetex(c, key, ttl_seconds, ModelDumpJson(value))

\* invalidate_key(redis, key)
invalidate_key(c, key) == RedisDelete(c, key)

\* One clock tick: every entry is one tick closer to its expiry.
Aged(c) ==
  [k \in DOMAIN c |->
     IF c[k].ttl > 1 THEN [c[k] EXCEPT !.ttl = @ - 1] ELSE NoEntry]

\* ------------------------------------------------------------------ state

VARIABLES
  orders,     \* the orders table: row i is the order with id i
  cache,      \* Redis: key -> [raw, ttl]
  redis,      \* whether the repository was built with a Redis client
  published,  \* ids handed to the broker by publish_new_order, in order
  returned,   \* ids returned by successful create_order calls, in order
  req,        \* the request tasks: arguments, position, locals
  last,       \* the call that ended last: arguments, outcome, context
  ep,         \* per order id: the calls of its last two episodes
  calls       \* requests started so far

\* The identity store and the requests to AuthService.
VARIABLES
  users,      \* the users table: row i is the user with id i
  areq,       \* the register / login tasks: arguments, position, locals
  alast       \* the register / login call that ended last

authvars == <<users, areq, alast>>

\* The answer to the list request that ended last.
VARIABLES listed

\* The cache primitive called last, for calls made to cache.py directly.
VARIABLES cop

\* A sequence of calls made to a repository with a Redis client, and made
\* again to a repository built with redis=None on a store of its own.
VARIABLES replay

\* RateLimitMiddleware and the clock it reads.
VARIABLES
  buckets,    \* self._buckets: client -> Bucket
  monotonic,  \* time.monotonic(), in ticks
  hits        \* the requests dispatched so far: client, time, forwarded

ratevars == <<buckets, monotonic, hits>>

\* The latest get whose cache lookup fell between the delete and the set of
\* an update_status on the same order.
VARIABLES win

\* Per order id, the statuses its row has had since it was inserted.
VARIABLES committed

\* The new_order queue of RabbitMQ, the consumer, Celery and its worker.
VARIABLES
  queue,      \* the bodies of the messages the broker holds, oldest first
  consumer,   \* handle_message: position, the message it holds, the task
  tasks,      \* the arguments of the process_order tasks enqueued in Celery
  processed,  \* the order ids process_order was run with, in order
  settled     \* the messages acknowledged or rejected so far

notifvars == <<queue, consumer, tasks, processed, settled>>

\* connect_rabbit: position, the loop's clock, deadline, last and the
\* attempts made.
VARIABLES conn

\* The state outside the orders, identity, list, cache and replay models.
outside == <<ratevars, win, committed, notifvars, conn>>

vars ==
  <<orders, cache, redis, published, returned, req, last, ep, calls,
    users, areq, alast, listed, cop, replay, buckets, monotonic, hits, win, committed, queue, consumer, tasks,
    processed, settled, conn>>

NullData == [items |-> "", total_price |-> 0]

\* A task with no request: kind and arguments of the call, position pc,
\* the ORM object / read model it holds (order), and what it did so far:
\* SELECTs of repo.get (reads), the text redis.get answered (raw),
\* publish_new_order calls (npub), its place in the episode (slot), and
\* whether the order had a row when the call began (had).
IdleReq ==
  [kind |-> "none", pc |-> "idle", user |-> 0, oid |-> 0, status |-> "",
   data |-> NullData, order |-> NullOrder,
   reads |-> 0, raw |-> <<>>, npub |-> 0, slot |-> 0, had |-> FALSE]

\* No call has ended yet.
NoCall ==
  [kind |-> "none", user |-> 0, oid |-> 0, status |-> "", res |-> "",
   val |-> NullOrder, reads |-> 0, raw |-> <<>>, npub |-> 0, had |-> FALSE,
   solo |-> FALSE, prev |-> <<>>]

NoEpisodes == [prev |-> <<>>, cur |-> <<>>]

\* No user (Python None).
NullUser == [id |-> 0, email |-> "", password_hash |-> <<>>]

\* A task of AuthService with no request: the call, its payload, the User
\* object it holds, whether another call was in flight during it (solo), the
\* outcome of a register of the same email that ended during it (peer), and
\* the users table when it began (before).
IdleAuth ==
  [kind |-> "none", pc |-> "idle", email |-> "", password |-> "",
   user |-> NullUser, solo |-> FALSE, peer |-> "", before |-> <<>>]

\* No register or login has ended yet.
NoAuthCall ==
  [kind |-> "none", email |-> "", password |-> "", res |-> "", val |-> <<>>,
   solo |-> FALSE, peer |-> "", before |-> <<>>, after |-> <<>>]

AuthInit ==
  /\ users = <<>>
  /\ areq = [r \in Req |-> IdleAuth]
  /\ alast = NoAuthCall

\* No list request has ended yet: the call, the user_id asked for, the
\* authenticated user (0 for a call of the repository), the outcome, the
\* orders returned and the calls made to OrdersService.list_orders_for_user.
NoList ==
  [kind |-> "none", user |-> 0, cur |-> 0, res |-> "", val |-> <<>>,
   nsvc |-> 0]

\* No primitive called yet: the primitive, its key and value, what
\* get_cached returned, and the keys set so far.
NoCacheOp ==
  [op |-> "none", key |-> <<>>, val |-> NullOrder, got |-> NullOrder,
   seen |-> {}]

\* No call made yet: which repository is running (1: with Redis, 2: without),
\* the calls made to the first, their results, the store the first ended
\* with, and how many of the calls the second has been given.
NoReplay ==
  [phase |-> 1, hist |-> <<>>, outs |-> <<>>, store |-> <<>>, pos |-> 0]

\* No bucket for the client yet (self._buckets.get(client) is None).
NoBucket == [reset_at |-> 0, count |-> -1]

\* No lookup in such a window yet: the task of the get (0 for none), the
\* order and the status the update asked for, whether the lookup answered a
\* miss, and, once the get has ended, its outcome, the status returned and
\* whether the two calls were then still alone on the order.
NoWindow ==
  [task |-> 0, oid |-> 0, status |-> "", miss |-> FALSE, res |-> "",
   val |-> NullOrder, reads |-> 0, alone |-> FALSE]

\* handle_message holds no message.
IdleConsumer == [pc |-> "idle", body |-> <<>>, task |-> <<>>]

\* connect_rabbit after its first two statements, at time 0 of the loop's
\* clock: deadline = time() + 60, last = None, no attempt made yet.
Connecting ==
  [pc |-> "test", time |-> 0, deadline |-> ConnectDeadline, last |-> "None",
   tries |-> <<>>]

Init ==
  /\ buckets = [c \in Clients |-> NoBucket]
  /\ monotonic = 0
  /\ hits = <<>>
  /\ win = NoWindow
  /\ committed = [id \in OrderIds |-> {}]
  /\ queue = <<>>
  /\ consumer = IdleConsumer
  /\ tasks = <<>>
  /\ processed = <<>>
  /\ settled = <<>>
  /\ conn = Connecting
  /\ AuthInit
  /\ listed = NoList
  /\ cop = NoCacheOp
  /\ replay = NoReplay
  /\ orders = <<>>
  /\ cache = [k \in CacheKeys |-> NoEntry]
  /\ redis = TRUE
  /\ published = <<>>
  /\ returned = <<>>
  /\ req = [r \in Req |-> IdleReq]
  /\ last = NoCall
  /\ ep = [id \in OrderIds |-> NoEpisodes]
  /\ calls = 0

\* The store row with primary key id, if any (scalar_one_or_none()).
HasRow(id) == id \in 1..Len(orders)

Running(r) == req[r].pc # "idle"

\* The other calls in flight on order id.
Others(r, id) == {q \in Req \ {r} : Running(q) /\ req[q].oid = id}

\* An episode of an order is a maximal period during which some call on it
\* is in flight. ep[id].cur lists the calls of the current (or, when none is
\* in flight, the latest) episode in the order they began, with the status
\* they ask for and how they ended; ep[id].prev is the episode before it.
EpOp(k, s) == [k |-> k, s |-> s, out |-> "running"]

\* Call r (record q) begins to act on order id.
Joined(r, q, id) ==
  [q EXCEPT !.oid = id,
            !.had = (id \in 1..Len(orders)),
            !.slot = IF Others(r, id) = {} THEN 1 ELSE Len(ep[id].cur) + 1]

EpJoined(r, q, id) ==
  IF Others(r, id) = {}
    THEN [ep EXCEPT ![id] = [prev |-> ep[id].cur,
                             cur |-> <<EpOp(q.kind, q.status)>>]]
    ELSE [ep EXCEPT ![id].cur = Append(@, EpOp(q.kind, q.status))]

\* The call returns val or raises (res is "ok" or the error).
Finished(q, res, val) ==
  [pc |-> "done", kind |-> q.kind, user |-> q.user, oid |-> q.oid,
   status |-> q.status, res |-> res, val |-> val, reads |-> q.reads,
   raw |-> q.raw, npub |-> q.npub, slot |-> q.slot, had |-> q.had]

\* The record kept of an ended call: solo when no other call on its order
\* was in flight between its begin and its end; prev is then the episode
\* that ended before it began.
Ended(q) ==
  [kind |-> q.kind, user |-> q.user, oid |-> q.oid, status |-> q.status,
   res |-> q.res, val |-> q.val, reads |-> q.reads, raw |-> q.raw,
   npub |-> q.npub, had |-> q.had,
   solo |-> Len(ep[q.oid].cur) = 1,
   prev |-> IF Len(ep[q.oid].cur) = 1 THEN ep[q.oid].prev ELSE <<>>]

\* Task r moves to q. A call that ends frees its task, closes its entry of
\* the episode and becomes the last call.
Move(r, q) ==
  IF q.pc = "done"
    THEN /\ req' = [req EXCEPT ![r] = IdleReq]
         /\ last' = Ended(q)
         /\ ep' = [ep EXCEPT ![q.oid].cur[q.slot].out = q.res]
    ELSE /\ req' = [req EXCEPT ![r] = q]
         /\ UNCHANGED <<last, ep>>


\* --------------------------------------------------------- request entry

\* A request is served by the first free task (tasks are interchangeable).
CanStart(r) ==
  /\ ~Running(r)
  /\ \A q \in Req : q < r => Running(q)
  /\ calls < MaxCalls

\* Task r starts call q on the (existing or not) order id.
Begin(r, q, id) ==
  /\ CanStart(r)
  /\ req' = [req EXCEPT ![r] = Joined(r, q, id)]
  /\ ep' = EpJoined(r, q, id)
  /\ calls' = calls + 1
  /\ UNCHANGED <<orders, cache, redis, published, returned, last>>

\* First await of OrdersRepository.get: the cache lookup when there is a
\* Redis client, the SELECT otherwise.
GetEntry == IF redis THEN "get_cache" ELSE "get_db"

\* OrdersService.create_order(user_id, payload)
StartCreateOrder(r, user_id, payload) ==
  /\ CanStart(r)
  /\ Len(orders) + Cardinality({q \in Req : req[q].pc = "create_commit"})
       < MaxOrders
  /\ req' = [req EXCEPT ![r] =
       [IdleReq EXCEPT !.kind = "create_order", !.pc = "create_commit",
                       !.user = user_id, !.data = payload]]
  /\ calls' = calls + 1
  /\ UNCHANGED <<orders, cache, redis, published, returned, last, ep>>

\* OrdersRepository.get(order_id)
StartGet(r, order_id) ==
  Begin(r, [IdleReq EXCEPT !.kind = "get", !.pc = GetEntry], order_id)

\* OrdersRepository.update_status(order_id, data)
StartUpdateStatus(r, order_id, status) ==
  Begin(r, [IdleReq EXCEPT !.kind = "update_status", !.pc = "upd_db",
                           !.status = status], order_id)

\* OrdersService.get_order_for_user(user_id, order_id)
StartGetOrderForUser(r, user_id, order_id) ==
  Begin(r, [IdleReq EXCEPT !.kind = "get_order_for_user", !.pc = GetEntry,
                           !.user = user_id], order_id)

\* OrdersService.update_status_for_user(user_id, order_id, payload)
StartUpdateStatusForUser(r, user_id, order_id, status) ==
  Begin(r, [IdleReq EXCEPT !.kind = "update_status_for_user",
                           !.pc = GetEntry, !.user = user_id,
                           !.status = status], order_id)

\* ------------------------------------------- OrdersRepository.create

\* session.add(order); await session.commit(): the INSERT.  The session keeps
\* the object as inserted (expire_on_commit=False).
CreateCommit(r) ==
  /\ req[r].pc = "create_commit"
  /\ LET id == Len(orders) + 1
         row == NewOrder(id, req[r].user, req[r].data, id)
         q == [req[r] EXCEPT !.pc = "create_refresh", !.order = row]
     IN /\ orders' = Append(orders, row)
        /\ req' = [req EXCEPT ![r] = Joined(r, q, id)]
        /\ ep' = EpJoined(r, q, id)
  /\ UNCHANGED <<cache, redis, published, returned, last, calls>>

\* await session.refresh(order): the row as the store holds it now.
CreateRefresh(r) ==
  /\ req[r].pc = "create_refresh"
  /\ Move(r, [req[r] EXCEPT !.order = orders[req[r].oid],
                            !.pc = IF redis THEN "create_set" ELSE "publish"])
  /\ UNCHANGED <<orders, cache, redis, published, returned, calls>>

\* set_cached(key(read.id), read, ttl): warm the cache.
CreateSetCached(r) ==
  /\ req[r].pc = "create_set"
  /\ LET read == OrderRead(req[r].order)
     IN cache' = set_cached(cache, OrderCacheKey(read.id), read, CacheTtl)
  /\ Move(r, [req[r] EXCEPT !.pc = "publish"])
  /\ UNCHANGED <<orders, redis, published, returned, calls>>

\* --------------------------------------- OrdersService.create_order

\* The owner's id published in place of the order's.
PublishedUserId(order) == order.user_id + 1

\* The argument of publish_new_order in create_order.
PublishedId(order) == order.id

\* await publisher.publish_new_order(order.id) completes; return order.
PublishNewOrder(r) ==
  /\ req[r].pc = "publish"
  /\ LET order == OrderRead(req[r].order)
     IN /\ published' = Append(published, PublishedId(order))
        /\ returned' = Append(returned, order.id)
        /\ Move(r, Finished([req[r] EXCEPT !.npub = @ + 1], "ok", order))
  /\ UNCHANGED <<orders, cache, redis, calls>>

\* The order deleted again when the publish raises.
PublishFailsRollsBack(r) ==
  /\ req[r].pc = "publish"
  /\ orders' = SubSeq(orders, 1, req[r].oid - 1)
  /\ Move(r, Finished([req[r] EXCEPT !.npub = @ + 1], "PublishError",
                      NullOrder))
  /\ UNCHANGED <<cache, redis, published, returned, calls>>

\* publish_new_order raises (broker unreachable): create_order raises.
PublishFails(r) ==
  /\ req[r].pc = "publish"
  /\ Move(r, Finished([req[r] EXCEPT !.npub = @ + 1], "PublishError",
                      NullOrder))
  /\ UNCHANGED <<orders, cache, redis, published, returned, calls>>

\* ---------------------------------------------- OrdersRepository.get

\* A missing row answered with an empty order.
OrderNotFoundReturnsEmpty(q) == Finished(q, "ok", NullOrder)

\* A missing row reported as another user's order.
OrderNotFoundAsForbidden(q) == Finished(q, "Forbidden", NullOrder)

\* raise ValueError("Order not found")
OrderNotFound(q) == Finished(q, "NotFound", NullOrder)

\* No ownership test: every user passes.
NotOwnerNever(order, user_id) == FALSE

\* The ownership test of OrdersService: order.user_id != user_id.
NotOwner(order, user_id) == order.user_id # user_id

\* What the caller of repo.get does with the order it returns: the
\* repository call itself returns it; get_order_for_user and
\* update_status_for_user raise PermissionError for another user's order;
\* update_status_for_user goes on to repo.update_status.
AfterGet(q, read) ==
  CASE q.kind = "get" -> Finished(q, "ok", read)
    [] q.kind = "get_order_for_user" ->
         IF NotOwner(read, q.user)
           THEN Finished(q, "Forbidden", NullOrder)
           ELSE Finished(q, "ok", read)
    [] q.kind = "update_status_for_user" ->
         IF NotOwner(read, q.user)
           THEN Finished(q, "Forbidden", NullOrder)
           ELSE [q EXCEPT !.pc = "upd_db", !.order = NullOrder]

\* The cached value ignored: every lookup treated as a miss.
OnCachedIgnored(q, raw) == [q EXCEPT !.pc = "get_db"]

\* What get does with the answer raw of redis.get: None is a miss and leads
\* to the store, anything else is parsed and returned.
OnCached(q, raw) ==
  IF raw = <<>>
    THEN [q EXCEPT !.pc = "get_db"]
    ELSE AfterGet(q, ModelValidateJson(raw))

\* cached = await get_cached(redis, key, OrderRead)
GetCached(r) ==
  /\ req[r].pc = "get_cache"
  /\ LET raw == RedisGet(cache, OrderCacheKey(req[r].oid))
     IN Move(r, OnCached([req[r] EXCEPT !.raw = raw], raw))
  /\ UNCHANGED <<orders, cache, redis, published, returned, calls>>

\* The missing order remembered in the cache (negative caching).
GetSelectCachesMissing(r) ==
  /\ req[r].pc = "get_db"
  /\ LET q == [req[r] EXCEPT !.reads = @ + 1]
     IN IF ~HasRow(q.oid)
          THEN /\ Move(r, OrderNotFound(q))
               /\ cache' = set_cached(cache, OrderCacheKey(q.oid), NullOrder,
                                      CacheTtl)
          ELSE /\ cache' = cache
               /\ IF redis
                    THEN Move(r, [q EXCEPT !.pc = "get_set",
                                           !.order = orders[q.oid]])
                    ELSE Move(r, AfterGet(q, OrderRead(orders[q.oid])))
  /\ UNCHANGED <<orders, redis, published, returned, calls>>

\* res = await session.execute(select ...); scalar_one_or_none()
GetSelect(r) ==
  /\ req[r].pc = "get_db"
  /\ LET q == [req[r] EXCEPT !.reads = @ + 1]
     IN IF ~HasRow(q.oid)
          THEN Move(r, OrderNotFound(q))
          ELSE IF redis
            THEN Move(r, [q EXCEPT !.pc = "get_set",
                                   !.order = orders[q.oid]])
            ELSE Move(r, AfterGet(q, OrderRead(orders[q.oid])))
  /\ UNCHANGED <<orders, cache, redis, published, returned, calls>>

\* set_cached(key, read, ttl); return read
GetSetCached(r) ==
  /\ req[r].pc = "get_set"
  /\ LET read == OrderRead(req[r].order)
     IN /\ cache' = set_cached(cache, OrderCacheKey(req[r].oid), read,
                               CacheTtl)
        /\ Move(r, AfterGet(req[r], read))
  /\ UNCHANGED <<orders, redis, published, returned, calls>>

\* -------------------------------------- OrdersRepository.update_status

\* The assignment left out.
WithStatusUnassigned(order, status) == order

\* A canceled order kept canceled: the assignment refused.
WithStatusFinal(order, status) ==
  IF order.status = "CANCELED" THEN order
  ELSE [order EXCEPT !.status = status]

\* The row stamped again by the update (created_at given an onupdate).
WithStatusTouched(order, status) ==
  [order EXCEPT !.status = status, !.created_at = @ + 1]

\* order.status = data.status
WithStatus(order, status) == [order EXCEPT !.status = status]

\* The SELECT of update_status.
UpdSelect(r) ==
  /\ req[r].pc = "upd_db"
  /\ IF ~HasRow(req[r].oid)
       THEN Move(r, OrderNotFound(req[r]))
       ELSE Move(r, [req[r] EXCEPT !.pc = "upd_commit",
                                   !.order = orders[req[r].oid]])
  /\ UNCHANGED <<orders, cache, redis, published, returned, calls>>

\* order.status = data.status; await session.commit(): the UPDATE of the
\* status column of that row.
UpdCommit(r) ==
  /\ req[r].pc = "upd_commit"
  /\ orders' = [orders EXCEPT ![req[r].oid] = WithStatus(@, req[r].status)]
  /\ Move(r, [req[r] EXCEPT !.pc = "upd_refresh",
                            !.order = WithStatus(@, req[r].status)])
  /\ UNCHANGED <<cache, redis, published, returned, calls>>

\* await session.refresh(order)
UpdRefresh(r) ==
  /\ req[r].pc = "upd_refresh"
  /\ LET row == orders[req[r].oid]
     IN IF redis
          THEN Move(r, [req[r] EXCEPT !.pc = "upd_del", !.order = row])
          ELSE Move(r, Finished(req[r], "ok", OrderRead(row)))
  /\ UNCHANGED <<orders, cache, redis, published, returned, calls>>

\* The delete left out: the old entry stays until the set.
UpdInvalidateSkipped(r) ==
  /\ req[r].pc = "upd_del"
  /\ Move(r, [req[r] EXCEPT !.pc = "upd_set"])
  /\ UNCHANGED <<orders, cache, redis, published, returned, calls>>

\* await invalidate_key(redis, key)
UpdInvalidate(r) ==
  /\ req[r].pc = "upd_del"
  /\ cache' = invalidate_key(cache, OrderCacheKey(req[r].oid))
  /\ Move(r, [req[r] EXCEPT !.pc = "upd_set"])
  /\ UNCHANGED <<orders, redis, published, returned, calls>>

\* await set_cached(key, read, ttl); return read
UpdSetCached(r) ==
  /\ req[r].pc = "upd_set"
  /\ LET read == OrderRead(req[r].order)
     IN /\ cache' = set_cached(cache, OrderCacheKey(req[r].oid), read,
                               CacheTtl)
        /\ Move(r, Finished(req[r], "ok", read))
  /\ UNCHANGED <<orders, redis, published, returned, calls>>

\* ------------------------------------------------------------ environment

CachePcs == {"get_cache", "get_set", "create_set", "upd_del", "upd_set"}

\* A failed lookup treated as a miss: get goes on to the store.
CacheFailsFallsBack(r) ==
  /\ req[r].pc \in CachePcs
  /\ IF req[r].pc = "get_cache"
       THEN Move(r, [req[r] EXCEPT !.pc = "get_db"])
       ELSE Move(r, Finished(req[r], "CacheError", NullOrder))
  /\ UNCHANGED <<orders, cache, redis, published, returned, calls>>

\* A Redis call raises (connection failure, or a cached value that does not
\* parse): nothing masks it, the call of the repository raises.
CacheFails(r) ==
  /\ req[r].pc \in CachePcs
  /\ Move(r, Finished(req[r], "CacheError", NullOrder))
  /\ UNCHANGED <<orders, cache, redis, published, returned, calls>>

\* Time passes: entries age and expire.
Tick ==
  /\ \E k \in CacheKeys : cache[k].ttl > 0
  /\ cache' = Aged(cache)
  /\ UNCHANGED <<orders, redis, published, returned, req, last, ep, calls>>

\* ---------------------------------------------------------- specifications

\* The state the calls to the orders service leave alone.
aside == <<authvars, outside, listed, cop, replay>>

\* The steps of the calls once they have begun.
CreateSteps ==
  \/ \E r \in Req : CreateCommit(r) /\ UNCHANGED aside
  \/ \E r \in Req : CreateRefresh(r) /\ UNCHANGED aside
  \/ \E r \in Req : CreateSetCached(r) /\ UNCHANGED aside
  \/ \E r \in Req : PublishNewOrder(r) /\ UNCHANGED aside

GetSteps ==
  \/ \E r \in Req : GetCached(r) /\ UNCHANGED aside
  \/ \E r \in Req : GetSelect(r) /\ UNCHANGED aside
  \/ \E r \in Req : GetSetCached(r) /\ UNCHANGED aside

UpdateSteps ==
  \/ \E r \in Req : UpdSelect(r) /\ UNCHANGED aside
  \/ \E r \in Req : UpdCommit(r) /\ UNCHANGED aside
  \/ \E r \in Req : UpdRefresh(r) /\ UNCHANGED aside
  \/ \E r \in Req : UpdInvalidate(r) /\ UNCHANGED aside
  \/ \E r \in Req : UpdSetCached(r) /\ UNCHANGED aside

\* The broker or Redis fails.
Failures ==
  \/ \E r \in Req : PublishFails(r) /\ UNCHANGED aside
  \/ \E r \in Req : CacheFails(r) /\ UNCHANGED aside

\* The steps of a call once it has begun, and the environment.
Steps ==
  \/ CreateSteps
  \/ GetSteps
  \/ UpdateSteps
  \/ Failures
  \/ Tick /\ UNCHANGED aside

\* The service as the HTTP routes drive it: concurrent requests to
\* OrdersService.
Next ==
  \/ /\ calls < MaxRequests
     /\ UNCHANGED aside
     /\ \/ \E r \in Req, u \in Users, p \in Payloads :
             StartCreateOrder(r, u, p)
        \/ \E r \in Req, u \in Users, id \in OrderIds :
             StartGetOrderForUser(r, u, id)
        \/ \E r \in Req, u \in Users, id \in OrderIds, s \in StatusInputs :
             StartUpdateStatusForUser(r, u, id, s)
  \/ Steps

Spec == Init /\ [][Next]_vars

\* The repository takes user_id only to store it in the row: its calls are
\* driven with the orders of one user.
RepoUsers == {1}

\* Concurrent calls of the repository's own methods.
RepoNext ==
  \/ \E r \in Req, u \in RepoUsers, p \in Payloads :
       StartCreateOrder(r, u, p) /\ UNCHANGED aside
  \/ \E r \in Req, id \in OrderIds :
       StartGet(r, id) /\ UNCHANGED aside
  \/ \E r \in Req, id \in OrderIds, s \in StatusInputs :
       StartUpdateStatus(r, id, s) /\ UNCHANGED aside
  \/ Steps

RepoSpec == Init /\ [][RepoNext]_vars

\* ------------------------------------------------------------ AuthService

\* UserCreate payloads: email and password.
Emails == {"ann@x.io", "bob@x.io"}
Passwords == {"secret1", "secret2"}
\* The random salts of the password hasher.
Salts == {"s1", "s2"}

\* hash_password(password): the argon2 hash, which carries its salt.
hash_password(password, salt) == <<"argon2", salt, password>>

\* Every password accepted.
verify_passwordAlways(password, password_hash) == TRUE

\* verify_password(password, password_hash): the password hashed again with
\* the salt of the stored hash gives the stored hash.
verify_password(password, password_hash) ==
  password_hash = hash_password(password, password_hash[2])

\* The decimal digits of a natural number: str(n), n > 0.
RECURSIVE Digits(_)
Digits(n) == IF n < 10 THEN <<n>> ELSE Append(Digits(n \div 10), n % 10)

\* str(user.id)
Str(n) == Digits(n)

\* create_access_token(subject): the claims of the signed token.
create_access_token(subject) == [sub |-> subject, exp |-> "expire"]

\* Token(access_token=token)
Token(token) == [access_token |-> token, token_type |-> "bearer"]

\* User(email=email, password_hash=password_hash) with its autoincrement id.
NewUser(id, email, password_hash) ==
  [id |-> id, email |-> email, password_hash |-> password_hash]

\* UserRead(id=user.id, email=user.email)
UserRead(user) == [id |-> user.id, email |-> user.email]

\* The lookup that finds nobody.
get_by_emailNone(u, email) == NullUser

\* UsersRepository.get_by_email: select(User).where(User.email == email),
\* scalar_one_or_none().
get_by_email(u, email) ==
  IF \E i \in 1..Len(u) : u[i].email = email
    THEN u[CHOOSE i \in 1..Len(u) : u[i].email = email]
    ELSE NullUser

\* The unique index on users.email refuses a second row with the email.
EmailTaken(u, email) == \E i \in 1..Len(u) : u[i].email = email

AuthRunning(r) == areq[r].pc # "idle"

AuthCanStart(r) ==
  /\ ~AuthRunning(r)
  /\ \A q \in Req : q < r => AuthRunning(q)
  /\ calls < MaxCalls

\* Task r ends its call with res (and val): it becomes the last call, and
\* the registers of the same email still in flight note its outcome.
AuthEnd(r, res, val, after) ==
  /\ alast' = [kind |-> areq[r].kind, email |-> areq[r].email,
               password |-> areq[r].password, res |-> res, val |-> val,
               solo |-> areq[r].solo, peer |-> areq[r].peer,
               before |-> areq[r].before, after |-> after]
  /\ areq' = [q \in Req |->
       IF q = r THEN IdleAuth
       ELSE IF AuthRunning(q) /\ areq[q].email = areq[r].email
                               /\ areq[r].kind = "register"
         THEN [areq[q] EXCEPT !.peer = res]
         ELSE areq[q]]

\* AuthService.register(payload) begins.
StartRegister(r, email, password) ==
  /\ AuthCanStart(r)
  /\ areq' = [q \in Req |->
       IF q = r
         THEN [IdleAuth EXCEPT !.kind = "register", !.pc = "reg_lookup",
                               !.email = email, !.password = password,
                               !.solo = (\A o \in Req : ~AuthRunning(o)),
                               !.before = users]
         ELSE [areq[q] EXCEPT !.solo = FALSE]]
  /\ calls' = calls + 1
  /\ UNCHANGED <<users, alast>>

\* existing = await get_by_email(payload.email); raise ValueError
\* ("email_exists") when there is one.
RegisterLookup(r) ==
  /\ areq[r].pc = "reg_lookup"
  /\ IF get_by_email(users, areq[r].email) # NullUser
       THEN AuthEnd(r, "email_exists", <<>>, users)
       ELSE /\ areq' = [areq EXCEPT ![r].pc = "reg_commit"]
            /\ UNCHANGED alast
  /\ UNCHANGED <<users, calls>>

\* UsersRepository.create: User(email, hash_password(password)); add;
\* await commit(): the INSERT, refused by the unique index (IntegrityError)
\* when a row with the email exists by now.
RegisterCommit(r, salt) ==
  /\ areq[r].pc = "reg_commit"
  /\ LET user == NewUser(Len(users) + 1, areq[r].email,
                         hash_password(areq[r].password, salt))
     IN IF EmailTaken(users, areq[r].email)
          THEN /\ AuthEnd(r, "IntegrityError", <<>>, users)
               /\ UNCHANGED users
          ELSE /\ users' = Append(users, user)
               /\ areq' = [areq EXCEPT ![r].pc = "reg_refresh",
                                       ![r].user = user]
               /\ UNCHANGED alast
  /\ UNCHANGED calls

\* await refresh(user); return UserRead(id=user.id, email=user.email)
RegisterRefresh(r) ==
  /\ areq[r].pc = "reg_refresh"
  /\ AuthEnd(r, "ok", UserRead(users[areq[r].user.id]), users)
  /\ UNCHANGED <<users, calls>>

\* AuthService.login(payload): one lookup, then the verification and the
\* token, with no await in between.
Login(r, email, password) ==
  /\ AuthCanStart(r)
  /\ LET user == get_by_email(users, email)
         bad == user = NullUser \/ ~verify_password(password, user.password_hash)
     IN alast' = [kind |-> "login", email |-> email, password |-> password,
                  res |-> IF bad THEN "bad_credentials" ELSE "ok",
                  val |-> IF bad THEN <<>>
                          ELSE Token(create_access_token(Str(user.id))),
                  solo |-> (\A o \in Req : ~AuthRunning(o)), peer |-> "",
                  before |-> users, after |-> users]
  /\ calls' = calls + 1
  /\ UNCHANGED <<users, areq>>

\* The state the calls to AuthService leave alone.
ordervars ==
  <<orders, cache, redis, published, returned, req, last, ep, listed, cop,
    replay, outside>>

\* Concurrent register and login requests.
AuthNext ==
  \/ \E r \in Req, e \in Emails, p \in Passwords :
       StartRegister(r, e, p) /\ UNCHANGED ordervars
  \/ \E r \in Req : RegisterLookup(r) /\ UNCHANGED ordervars
  \/ \E r \in Req, s \in Salts : RegisterCommit(r, s) /\ UNCHANGED ordervars
  \/ \E r \in Req : RegisterRefresh(r) /\ UNCHANGED ordervars
  \/ \E r \in Req, e \in Emails, p \in Passwords :
       Login(r, e, p) /\ UNCHANGED ordervars

AuthSpec == Init /\ [][AuthNext]_vars

\* ------------------------------------------------------------ list requests

\* The rows sorted by created_at, newest first (order_by(created_at.desc())).
RECURSIVE OrderByCreatedAtDesc(_)
OrderByCreatedAtDesc(rows) ==
  IF rows = {} THEN <<>>
  ELSE LET newest == CHOOSE x \in rows :
                       \A y \in rows : y.created_at <= x.created_at
       IN <<newest>> \o OrderByCreatedAtDesc(rows \ {newest})

\* The rows of the user, oldest first.
list_for_userAsc(o, c, user_id) ==
  LET mine == SelectSeq(o, LAMBDA row : row.user_id = user_id)
  IN [i \in 1..Len(mine) |-> OrderRead(mine[i])]

\* Each order read through the cache, as get reads it.
list_for_userCached(o, c, user_id) ==
  LET found == OrderByCreatedAtDesc(
                 {o[i] : i \in {j \in 1..Len(o) : o[j].user_id = user_id}})
  IN [i \in 1..Len(found) |->
        IF RedisGet(c, OrderCacheKey(found[i].id)) # <<>>
          THEN ModelValidateJson(RedisGet(c, OrderCacheKey(found[i].id)))
          ELSE OrderRead(found[i])]

\* OrdersRepository.list_for_user(user_id) of a repository with store o and
\* Redis c: select(Order).where(Order.user_id == user_id)
\* .order_by(Order.created_at.desc()), each row as an OrderRead.
list_for_user(o, c, user_id) ==
  LET found == OrderByCreatedAtDesc(
                 {o[i] : i \in {j \in 1..Len(o) : o[j].user_id = user_id}})
  IN [i \in 1..Len(found) |-> OrderRead(found[i])]

\* A list request is answered in one step (its one await is the SELECT).
ListAnswer(answer) ==
  /\ \E r \in Req : CanStart(r)
  /\ listed' = answer
  /\ calls' = calls + 1
  /\ UNCHANGED <<orders, cache, redis, published, returned, req, last, ep>>

\* OrdersRepository.list_for_user(user_id)
ListForUser(user_id) ==
  ListAnswer([kind |-> "list_for_user", user |-> user_id, cur |-> 0,
              res |-> "ok", val |-> list_for_user(orders, cache, user_id),
              nsvc |-> 0])

\* The value of a number written in decimal digits: int(subject).
RECURSIVE ToInt(_)
ToInt(digits) ==
  IF Len(digits) = 0 THEN 0
  ELSE 10 * ToInt(SubSeq(digits, 1, Len(digits) - 1)) + digits[Len(digits)]

\* Bearer tokens presented to the list endpoint: the tokens login issues
\* for the users, and one that does not decode.
ForgedToken == [sub |-> <<>>, exp |-> "forged"]
BearerTokens == {create_access_token(Str(u)) : u \in Users} \cup {ForgedToken}

\* decode_token(token) raises for a token that does not verify.
TokenDecodes(token) == token.exp # "forged"

\* get_current_user_id: int(decode_token(token.credentials))
get_current_user_id(token) == ToInt(token.sub)

\* The path user_id never compared with the caller.
PathMismatchNever(user_id, current_user_id) == FALSE

\* The test of list_user_orders_endpoint: user_id != current_user_id.
PathMismatch(user_id, current_user_id) == user_id # current_user_id

\* GET /orders/user/{user_id}/ : 401 for a bad token, 403 for another
\* user's id, else OrdersList(service.list_orders_for_user(user_id)).
ListUserOrdersEndpoint(user_id, token) ==
  IF ~TokenDecodes(token)
    THEN ListAnswer([kind |-> "list_endpoint", user |-> user_id, cur |-> 0,
                     res |-> "Unauthenticated", val |-> <<>>, nsvc |-> 0])
    ELSE LET current_user_id == get_current_user_id(token)
         IN IF PathMismatch(user_id, current_user_id)
              THEN ListAnswer([kind |-> "list_endpoint", user |-> user_id,
                               cur |-> current_user_id, res |-> "Forbidden",
                               val |-> <<>>, nsvc |-> 0])
              ELSE ListAnswer([kind |-> "list_endpoint", user |-> user_id,
                               cur |-> current_user_id, res |-> "ok",
                               val |-> list_for_user(orders, cache, user_id),
                               nsvc |-> 1])

\* The state a list request leaves alone, besides that of the orders.
listaside == <<authvars, outside, cop, replay>>

\* Orders created and updated while lists are asked for; Redis and the
\* broker answer.
ListNext ==
  \/ \E r \in Req, u \in Users, p \in Payloads :
       StartCreateOrder(r, u, p) /\ UNCHANGED aside
  \/ \E r \in Req, id \in OrderIds, s \in StatusInputs :
       StartUpdateStatus(r, id, s) /\ UNCHANGED aside
  \/ \E u \in Users : ListForUser(u) /\ UNCHANGED listaside
  \/ \E u \in Users, t \in BearerTokens :
       ListUserOrdersEndpoint(u, t) /\ UNCHANGED listaside
  \/ CreateSteps
  \/ UpdateSteps
  \/ Tick /\ UNCHANGED aside

ListSpec == Init /\ [][ListNext]_vars

\* ------------------------------------------------- cache primitives alone

\* Read models handed to set_cached.
CacheValues ==
  {OrderRead([NewOrder(id, 1, p, id) EXCEPT !.status = s]) :
     id \in OrderIds, p \in Payloads, s \in Statuses}

\* get_cached(redis, key, OrderRead): None (NullOrder) for an absent key,
\* else the stored text parsed.
get_cached(c, key) ==
  IF RedisGet(c, key) = <<>>
    THEN NullOrder
    ELSE ModelValidateJson(RedisGet(c, key))

\* The state a call of a cache primitive leaves alone.
cacheaside ==
  <<orders, redis, published, returned, req, last, ep, calls, authvars,
    outside, listed, replay>>

\* await set_cached(redis, key, value, ttl_seconds)
SetCached(key, value) ==
  /\ cache' = set_cached(cache, key, value, CacheTtl)
  /\ cop' = [op |-> "set", key |-> key, val |-> value, got |-> NullOrder,
             seen |-> cop.seen \cup {key}]
  /\ UNCHANGED cacheaside

\* await get_cached(redis, key, OrderRead)
GetCachedValue(key) ==
  /\ cop' = [op |-> "get", key |-> key, val |-> NullOrder,
             got |-> get_cached(cache, key), seen |-> cop.seen]
  /\ UNCHANGED cache
  /\ UNCHANGED cacheaside

\* await invalidate_key(redis, key)
InvalidateKey(key) ==
  /\ cache' = invalidate_key(cache, key)
  /\ cop' = [op |-> "delete", key |-> key, val |-> NullOrder,
             got |-> NullOrder, seen |-> cop.seen]
  /\ UNCHANGED cacheaside

\* Time passes between two calls.
CacheTick ==
  /\ Tick
  /\ cop' = [cop EXCEPT !.op = "tick"]
  /\ UNCHANGED <<authvars, outside, listed, replay>>

CacheNext ==
  \/ \E k \in CacheKeys, v \in CacheValues : SetCached(k, v)
  \/ \E k \in CacheKeys : GetCachedValue(k)
  \/ \E k \in CacheKeys : InvalidateKey(k)
  \/ CacheTick

CacheSpec == Init /\ [][CacheNext]_vars

\* ------------------------------------- with a Redis client and without

\* Calls of the repository: create, get, update_status and list_for_user.
Call(kind, user, oid, status, data) ==
  [kind |-> kind, user |-> user, oid |-> oid, status |-> status,
   data |-> data]

RepoCalls ==
  {Call("create_order", u, 0, "", p) : u \in RepoUsers, p \in Payloads}
    \cup {Call("get", 0, id, "", NullData) : id \in OrderIds}
    \cup {Call("update_status", 0, id, s, NullData) :
            id \in OrderIds, s \in StatusInputs}
    \cup {Call("list_for_user", u, 0, "", NullData) : u \in RepoUsers}

\* No call is in flight: calls are made one at a time.
AllIdle == \A r \in Req : ~Running(r)

\* What the call c that ended last returned or raised, and the SELECTs by
\* primary key it made.
ResultNow(c) ==
  IF c.kind = "list_for_user"
    THEN [res |-> listed.res, val |-> listed.val, reads |-> 0]
    ELSE [res |-> last.res, val |-> last.val, reads |-> last.reads]

\* Task r begins call c.
StartCall(r, c) ==
  CASE c.kind = "create_order" ->
         StartCreateOrder(r, c.user, c.data) /\ UNCHANGED listed
    [] c.kind = "get" -> StartGet(r, c.oid) /\ UNCHANGED listed
    [] c.kind = "update_status" ->
         StartUpdateStatus(r, c.oid, c.status) /\ UNCHANGED listed
    [] c.kind = "list_for_user" -> CanStart(r) /\ ListForUser(c.user)

\* The result of the call made before is noted when the next one is made.
Noted ==
  IF replay.hist = <<>> THEN replay.outs
  ELSE Append(replay.outs, ResultNow(replay.hist[Len(replay.hist)]))

\* A call to the repository that has a Redis client.
CallWithRedis(r, c) ==
  /\ replay.phase = 1
  /\ AllIdle
  /\ StartCall(r, c)
  /\ replay' = [replay EXCEPT !.hist = Append(@, c), !.outs = Noted]
  /\ UNCHANGED <<authvars, outside, cop>>

\* OrdersRepository(session, redis=None) on a store of its own: from here
\* on the calls made so far are made to it.
BuildWithoutRedis ==
  /\ replay.phase = 1
  /\ AllIdle
  /\ replay.hist # <<>>
  /\ replay' = [phase |-> 2, hist |-> replay.hist, outs |-> Noted,
                store |-> orders, pos |-> 0]
  /\ orders' = <<>>
  /\ cache' = [k \in CacheKeys |-> NoEntry]
  /\ redis' = FALSE
  /\ published' = <<>>
  /\ returned' = <<>>
  /\ last' = NoCall
  /\ ep' = [id \in OrderIds |-> NoEpisodes]
  /\ calls' = 0
  /\ listed' = NoList
  /\ UNCHANGED <<req, authvars, outside, cop>>

\* The next of the calls, made to the repository without Redis.
CallWithoutRedis(r) ==
  /\ replay.phase = 2
  /\ AllIdle
  /\ replay.pos < Len(replay.hist)
  /\ StartCall(r, replay.hist[replay.pos + 1])
  /\ replay' = [replay EXCEPT !.pos = @ + 1]
  /\ UNCHANGED <<authvars, outside, cop>>

\* A sequence of calls made one at a time to a repository with Redis, then
\* to one without; Redis and the broker answer.
PairNext ==
  \/ \E r \in Req, c \in RepoCalls : CallWithRedis(r, c)
  \/ BuildWithoutRedis
  \/ \E r \in Req : CallWithoutRedis(r)
  \/ CreateSteps
  \/ GetSteps
  \/ UpdateSteps
  \/ Tick /\ UNCHANGED aside

PairSpec == Init /\ [][PairNext]_vars

\* ------------------------------------------------- the clock of Redis

\* Calls to the repository by one user; Redis and the broker may fail.
TtlNext ==
  \/ /\ calls < MaxRequests
     /\ UNCHANGED aside
     /\ \/ \E r \in Req, u \in RepoUsers, p \in Payloads :
             StartCreateOrder(r, u, p)
        \/ \E r \in Req, id \in OrderIds : StartGet(r, id)
        \/ \E r \in Req, id \in OrderIds, st \in StatusInputs :
             StartUpdateStatus(r, id, st)
  \/ Steps

\* Time does not stop while Redis holds an entry: the expiry of an entry is
\* the work of the Redis server, whatever the request tasks do.
TtlSpec == Init /\ [][TtlNext]_vars /\ WF_vars(Tick /\ UNCHANGED aside)

\* ----------------------------------------------- cancelled requests

\* The row put back to PENDING when the request is cancelled.
CancelledRollsBack(r) ==
  /\ req[r].kind = "update_status"
  /\ Running(r)
  /\ orders' = IF HasRow(req[r].oid)
                THEN [orders EXCEPT ![req[r].oid].status = "PENDING"]
                ELSE orders
  /\ Move(r, Finished(req[r], "Cancelled", NullOrder))
  /\ UNCHANGED <<cache, redis, published, returned, calls>>

\* The request task is cancelled while update_status waits at one of its
\* awaits: CancelledError is raised there and nothing in update_status or in
\* get_session catches it; the session closes with nothing uncommitted to
\* undo. The step the task was about to take is not taken.
Cancelled(r) ==
  /\ req[r].kind = "update_status"
  /\ Running(r)
  /\ Move(r, Finished(req[r], "Cancelled", NullOrder))
  /\ UNCHANGED <<orders, cache, redis, published, returned, calls>>

\* Calls to the repository by one user; Redis and the broker may fail and
\* an update_status may be cancelled at any of its awaits.
DurNext ==
  \/ /\ calls < MaxRequests
     /\ UNCHANGED aside
     /\ \/ \E r \in Req, u \in RepoUsers, p \in Payloads :
             StartCreateOrder(r, u, p)
        \/ \E r \in Req, id \in OrderIds : StartGet(r, id)
        \/ \E r \in Req, id \in OrderIds, st \in StatusInputs :
             StartUpdateStatus(r, id, st)
  \/ Steps
  \/ \E r \in Req : Cancelled(r) /\ UNCHANGED aside

DurSpec == Init /\ [][DurNext]_vars

\* ------------------------------------------- updates to every status

\* update_status calls made one after the other with any OrderStatus as the
\* new status, on the orders one user created; Redis may fail.
StatusNext ==
  \/ \E r \in Req, u \in RepoUsers, p \in Payloads :
       AllIdle /\ StartCreateOrder(r, u, p) /\ UNCHANGED aside
  \/ \E r \in Req, id \in OrderIds, st \in Statuses :
       AllIdle /\ StartUpdateStatus(r, id, st) /\ UNCHANGED aside
  \/ CreateSteps
  \/ UpdateSteps
  \/ \E r \in Req : CacheFails(r) /\ UNCHANGED aside
  \/ Tick /\ UNCHANGED aside

StatusSpec == Init /\ [][StatusNext]_vars

\* ------------------------------------------ the statuses a row has had

\* The state the calls to the repository leave alone, committed apart.
histaside ==
  <<authvars, ratevars, win, notifvars, conn, listed, cop, replay>>

\* committed after the step: the status each row has after a commit is
\* added to those it had.
Held ==
  [id \in OrderIds |->
     IF id \in 1..Len(orders') THEN committed[id] \cup {orders'[id].status}
     ELSE committed[id]]

\* Calls to the repository by one user, with the statuses committed noted.
HistNext ==
  \/ /\ calls < MaxRequests
     /\ \/ \E r \in Req, u \in RepoUsers, p \in Payloads :
             StartCreateOrder(r, u, p) /\ committed' = Held
               /\ UNCHANGED histaside
        \/ \E r \in Req, id \in OrderIds :
             StartGet(r, id) /\ committed' = Held /\ UNCHANGED histaside
        \/ \E r \in Req, id \in OrderIds, st \in StatusInputs :
             StartUpdateStatus(r, id, st) /\ committed' = Held
               /\ UNCHANGED histaside
  \/ \E r \in Req : CreateCommit(r) /\ committed' = Held /\ UNCHANGED histaside
  \/ \E r \in Req : CreateRefresh(r) /\ committed' = Held /\ UNCHANGED histaside
  \/ \E r \in Req : CreateSetCached(r) /\ committed' = Held
       /\ UNCHANGED histaside
  \/ \E r \in Req : PublishNewOrder(r) /\ committed' = Held
       /\ UNCHANGED histaside
  \/ \E r \in Req : GetCached(r) /\ committed' = Held /\ UNCHANGED histaside
  \/ \E r \in Req : GetSelect(r) /\ committed' = Held /\ UNCHANGED histaside
  \/ \E r \in Req : GetSetCached(r) /\ committed' = Held /\ UNCHANGED histaside
  \/ \E r \in Req : UpdSelect(r) /\ committed' = Held /\ UNCHANGED histaside
  \/ \E r \in Req : UpdCommit(r) /\ committed' = Held /\ UNCHANGED histaside
  \/ \E r \in Req : UpdRefresh(r) /\ committed' = Held /\ UNCHANGED histaside
  \/ \E r \in Req : UpdInvalidate(r) /\ committed' = Held
       /\ UNCHANGED histaside
  \/ \E r \in Req : UpdSetCached(r) /\ committed' = Held /\ UNCHANGED histaside
  \/ \E r \in Req : PublishFails(r) /\ committed' = Held /\ UNCHANGED histaside
  \/ \E r \in Req : CacheFails(r) /\ committed' = Held /\ UNCHANGED histaside
  \/ Tick /\ committed' = Held /\ UNCHANGED histaside

HistSpec == Init /\ [][HistNext]_vars

\* ----------------------------- a get between an update's delete and set

\* The state the calls to the repository leave alone, win apart.
winaside ==
  <<authvars, ratevars, committed, notifvars, conn, listed, cop, replay>>

\* The update_status calls on the order of task r that have deleted the
\* order's key (invalidate_key) and not yet set it again (set_cached).
InWindow(r) ==
  {u \in Req \ {r} : /\ req[u].kind = "update_status"
                     /\ req[u].oid = req[r].oid
                     /\ req[u].pc = "upd_set"}

\* The step is the cache lookup of get r, answered by Redis, inside such a
\* window.
LookupInWindow(r) ==
  /\ req[r].kind = "get"
  /\ req[r].pc = "get_cache"
  /\ req'[r] # req[r]
  /\ InWindow(r) # {}
  /\ ~(req'[r].pc = "idle" /\ last'.res = "CacheError")

\* win after the step: a lookup inside a window is recorded, with whether
\* the get and the update are the only calls of the order's episode; the
\* end of the recorded get adds its outcome.
Windowed ==
  IF \E r \in Req : LookupInWindow(r)
    THEN LET r == CHOOSE t \in Req : LookupInWindow(t)
             u == CHOOSE t \in InWindow(r) : TRUE
             ended == req'[r].pc = "idle"
         IN [task |-> r, oid |-> req[r].oid, status |-> req[u].status,
             miss |-> req'[r].pc = "get_db",
             res |-> IF ended THEN last'.res ELSE "",
             val |-> IF ended THEN last'.val ELSE NullOrder,
             reads |-> IF ended THEN last'.reads ELSE 0,
             alone |-> Len(ep[req[r].oid].cur) = 2]
    ELSE IF /\ win.task # 0
            /\ win.res = ""
            /\ req[win.task].pc # "idle"
            /\ req'[win.task].pc = "idle"
      THEN [win EXCEPT !.res = last'.res, !.val = last'.val,
                       !.reads = last'.reads,
                       !.alone = @ /\ Len(ep'[win.oid].cur) = 2]
      ELSE win

\* Calls to the repository by one user, with the lookups in a window noted.
WinNext ==
  \/ /\ calls < MaxRequests
     /\ \/ \E r \in Req, u \in RepoUsers, p \in Payloads :
             StartCreateOrder(r, u, p) /\ win' = Windowed /\ UNCHANGED winaside
        \/ \E r \in Req, id \in OrderIds :
             StartGet(r, id) /\ win' = Windowed /\ UNCHANGED winaside
        \/ \E r \in Req, id \in OrderIds, st \in StatusInputs :
             StartUpdateStatus(r, id, st) /\ win' = Windowed
               /\ UNCHANGED winaside
  \/ \E r \in Req : CreateCommit(r) /\ win' = Windowed /\ UNCHANGED winaside
  \/ \E r \in Req : CreateRefresh(r) /\ win' = Windowed /\ UNCHANGED winaside
  \/ \E r \in Req : CreateSetCached(r) /\ win' = Windowed /\ UNCHANGED winaside
  \/ \E r \in Req : PublishNewOrder(r) /\ win' = Windowed /\ UNCHANGED winaside
  \/ \E r \in Req : GetCached(r) /\ win' = Windowed /\ UNCHANGED winaside
  \/ \E r \in Req : GetSelect(r) /\ win' = Windowed /\ UNCHANGED winaside
  \/ \E r \in Req : GetSetCached(r) /\ win' = Windowed /\ UNCHANGED winaside
  \/ \E r \in Req : UpdSelect(r) /\ win' = Windowed /\ UNCHANGED winaside
  \/ \E r \in Req : UpdCommit(r) /\ win' = Windowed /\ UNCHANGED winaside
  \/ \E r \in Req : UpdRefresh(r) /\ win' = Windowed /\ UNCHANGED winaside
  \/ \E r \in Req : UpdInvalidate(r) /\ win' = Windowed /\ UNCHANGED winaside
  \/ \E r \in Req : UpdSetCached(r) /\ win' = Windowed /\ UNCHANGED winaside
  \/ \E r \in Req : PublishFails(r) /\ win' = Windowed /\ UNCHANGED winaside
  \/ \E r \in Req : CacheFails(r) /\ win' = Windowed /\ UNCHANGED winaside
  \/ Tick /\ win' = Windowed /\ UNCHANGED winaside

WinSpec == Init /\ [][WinNext]_vars

\* ---------------------------------------------------- RateLimitMiddleware

\* Bucket(reset_at=..., count=...)
Bucket(reset_at, count) == [reset_at |-> reset_at, count |-> count]

\* The limit tested one request late.
LimitReachedLate(bucket) == bucket.count > RateLimit

\* bucket.count >= settings.rate_limit_per_minute
LimitReached(bucket) == bucket.count >= RateLimit

\* The client's bucket kept once it exists: its window never starts again.
CurrentBucketKept(client) ==
  IF buckets[client] = NoBucket THEN Bucket(monotonic + Window, 0)
  ELSE buckets[client]

\* The bucket dispatch goes on with: the client's own, or a new one that
\* resets a window from now when the client has none or its window is over.
CurrentBucket(client) ==
  LET bucket == buckets[client]
  IN IF bucket = NoBucket \/ monotonic >= bucket.reset_at
       THEN Bucket(monotonic + Window, 0)
       ELSE bucket

\* The state the middleware leaves alone.
rateaside ==
  <<orders, cache, redis, published, returned, req, last, ep, calls,
    authvars, listed, cop, replay, win, committed, notifvars, conn>>

\* RateLimitMiddleware.dispatch for a request of the client, up to its one
\* await: no other request runs between the read of the bucket and the
\* write. Over the limit the answer is 429 and the bucket is not written;
\* otherwise the request is counted and handed to call_next.
Dispatch(client) ==
  /\ Len(hits) < MaxHits
  /\ LET bucket == CurrentBucket(client)
     IN IF LimitReached(bucket)
          THEN /\ hits' = Append(hits, [client |-> client, at |-> monotonic,
                                        forwarded |-> FALSE, status |-> 429,
                                        detail |-> "Rate limit exceeded"])
               /\ UNCHANGED buckets
          ELSE /\ buckets' = [buckets EXCEPT ![client] =
                                Bucket(bucket.reset_at, bucket.count + 1)]
               /\ hits' = Append(hits, [client |-> client, at |-> monotonic,
                                        forwarded |-> TRUE, status |-> 200,
                                        detail |-> ""])
  /\ UNCHANGED monotonic

\* Time passes.
Advance ==
  /\ monotonic < MaxNow
  /\ monotonic' = monotonic + 1
  /\ UNCHANGED <<buckets, hits>>

\* Requests of the clients to an application behind the middleware.
RateNext ==
  \/ \E client \in Clients : Dispatch(client) /\ UNCHANGED rateaside
  \/ Advance /\ UNCHANGED rateaside

RateSpec == Init /\ [][RateNext]_vars

\* ------------------------------------------- new_order notifications

\* The id written as a bare JSON string, not as an object.
to_bytesBare(order_id) == <<"{", Str(order_id), "}">>

\* NewOrderEvent(order_id).to_bytes(): the JSON text {"order_id": "<id>"}.
to_bytes(order_id) == <<"{", "order_id", Str(order_id), "}">>

\* Bodies of other producers that handle_message cannot use: no JSON, a
\* JSON object without the key order_id, an order_id that is no UUID.
Malformed ==
  {<<"not json">>, <<"{", "id", Str(1), "}">>, <<"{", "order_id", <<>>, "}">>}

\* json.loads(message.body.decode("utf-8")) returns a one-key object.
JsonLoads(body) == Len(body) = 4 /\ body[1] = "{" /\ body[4] = "}"

\* uuid.UUID(s) accepts s.
IsUuid(s) == Len(s) > 0 /\ \A i \in 1..Len(s) : s[i] \in 0..9

\* Lines 36-37 of handle_message raise nothing for this body.
Parses(body) ==
  /\ JsonLoads(body)
  /\ body[2] = "order_id"
  /\ IsUuid(body[3])

\* str(uuid.UUID(str(payload["order_id"]))): the argument of delay.
ParsedOrderId(body) == Str(ToInt(body[3]))

\* The state the notification path leaves alone.
notifaside ==
  <<orders, cache, redis, returned, req, last, ep, calls, authvars, listed,
    cop, replay, ratevars, win, committed, conn>>

\* RabbitPublisher.publish_new_order(order_id) completes: the persistent
\* message is on the durable queue. An order id is published once.
RabbitPublish(order_id) ==
  /\ \A i \in 1..Len(published) : published[i] # order_id
  /\ published' = Append(published, order_id)
  /\ queue' = Append(queue, to_bytes(order_id))
  /\ UNCHANGED <<consumer, tasks, processed, settled>>

\* Another producer puts a body on the queue.
ForeignPublish(body) ==
  /\ Cardinality({i \in 1..Len(queue) : queue[i] \in Malformed})
       + Cardinality({i \in 1..Len(settled) : settled[i].body \in Malformed})
       + (IF consumer.body \in Malformed THEN 1 ELSE 0) < MaxForeign
  /\ queue' = Append(queue, body)
  /\ UNCHANGED <<published, consumer, tasks, processed, settled>>

\* The broker delivers the oldest message and handle_message runs up to the
\* await that ends `async with message.process()`: the body is parsed and
\* process_order.delay(str(order_id)) enqueues the task, or a line raises
\* and nothing is enqueued.
HandleMessage ==
  /\ consumer.pc = "idle"
  /\ queue # <<>>
  /\ queue' = Tail(queue)
  /\ LET body == Head(queue)
     IN IF Parses(body)
          THEN /\ tasks' = Append(tasks, ParsedOrderId(body))
               /\ consumer' = [pc |-> "ack", body |-> body,
                               task |-> ParsedOrderId(body)]
          ELSE /\ tasks' = tasks
               /\ consumer' = [pc |-> "reject", body |-> body, task |-> <<>>]
  /\ UNCHANGED <<published, processed, settled>>

\* process_order.delay raises (the Celery broker cannot be reached): no
\* task is enqueued and the exception leaves the `async with`.
DelayFails ==
  /\ consumer.pc = "idle"
  /\ queue # <<>>
  /\ Parses(Head(queue))
  /\ queue' = Tail(queue)
  /\ consumer' = [pc |-> "reject", body |-> Head(queue), task |-> <<>>]
  /\ UNCHANGED <<published, tasks, processed, settled>>

\* message.process() exits without exception: the message is acknowledged.
AckMessage ==
  /\ consumer.pc = "ack"
  /\ settled' = Append(settled, [body |-> consumer.body, how |-> "ack",
                                 task |-> consumer.task])
  /\ consumer' = IdleConsumer
  /\ UNCHANGED <<published, queue, tasks, processed>>

\* message.process() exits with an exception: the message is rejected with
\* requeue=False (the default of process()), so the broker drops it.
RejectMessage ==
  /\ consumer.pc = "reject"
  /\ settled' = Append(settled, [body |-> consumer.body, how |-> "reject",
                                 task |-> consumer.task])
  /\ consumer' = IdleConsumer
  /\ UNCHANGED <<published, queue, tasks, processed>>

\* A Celery worker runs process_order(order_id): parsed = uuid.UUID(order_id).
ProcessOrder ==
  /\ tasks # <<>>
  /\ processed' = Append(processed, ToInt(Head(tasks)))
  /\ tasks' = Tail(tasks)
  /\ UNCHANGED <<published, queue, consumer, settled>>

\* Publishers, the broker, the consumer and the worker.
NotifyNext ==
  \/ \E id \in OrderIds : RabbitPublish(id) /\ UNCHANGED notifaside
  \/ \E body \in Malformed : ForeignPublish(body) /\ UNCHANGED notifaside
  \/ HandleMessage /\ UNCHANGED notifaside
  \/ DelayFails /\ UNCHANGED notifaside
  \/ AckMessage /\ UNCHANGED notifaside
  \/ RejectMessage /\ UNCHANGED notifaside
  \/ ProcessOrder /\ UNCHANGED notifaside

\* The broker delivers what it holds to the running consumer, the event
\* loop runs handle_message to its end, and the worker takes every task.
NotifyFair ==
  /\ WF_vars((HandleMessage \/ DelayFails) /\ UNCHANGED notifaside)
  /\ WF_vars(AckMessage /\ UNCHANGED notifaside)
  /\ WF_vars(RejectMessage /\ UNCHANGED notifaside)
  /\ WF_vars(ProcessOrder /\ UNCHANGED notifaside)

NotifySpec == Init /\ [][NotifyNext]_vars /\ NotifyFair

\* ------------------------------------------------------- connect_rabbit

\* The exceptions aio_pika.connect_robust raises while the broker is down.
ConnectErrors == {"ConnectionRefusedError", "TimeoutError"}

\* The state connect_rabbit leaves alone.
connaside ==
  <<orders, cache, redis, returned, req, last, ep, calls, authvars, listed,
    cop, published, replay, ratevars, win, committed, notifvars>>

\* while asyncio.get_event_loop().time() < deadline: enter the body, or
\* leave the loop and raise RuntimeError(f"RabbitMQ not ready: {last!r}").
LoopTest ==
  /\ conn.pc = "test"
  /\ conn' = [conn EXCEPT
                !.pc = IF conn.time < conn.deadline THEN "attempt"
                                                    ELSE "raised"]

\* return await aio_pika.connect_robust(...): the attempt takes d ticks and
\* its connection is returned.
ConnectSucceeds(d) ==
  /\ conn.pc = "attempt"
  /\ conn' = [conn EXCEPT
                !.pc = "returned",
                !.time = @ + d,
                !.tries = Append(@, [at |-> conn.time, result |-> "ok"])]

\* The attempt takes d ticks and raises e: last = e.
ConnectFails(e, d) ==
  /\ conn.pc = "attempt"
  /\ conn' = [conn EXCEPT
                !.pc = "sleep",
                !.time = @ + d,
                !.last = e,
                !.tries = Append(@, [at |-> conn.time, result |-> e])]

\* The sleep returns at once.
SleepSkipped(d) ==
  /\ conn.pc = "sleep"
  /\ conn' = [conn EXCEPT !.pc = "test"]

\* await asyncio.sleep(1): one second and d ticks of delay pass.
Sleep(d) ==
  /\ conn.pc = "sleep"
  /\ conn' = [conn EXCEPT !.pc = "test", !.time = @ + 1 + d]

\* connect_rabbit, one await at a time.
ConnNext ==
  \/ LoopTest /\ UNCHANGED connaside
  \/ \E d \in 0..MaxConnectTime : ConnectSucceeds(d) /\ UNCHANGED connaside
  \/ \E e \in ConnectErrors, d \in 0..MaxConnectTime :
       ConnectFails(e, d) /\ UNCHANGED connaside
  \/ \E d \in 0..MaxConnectTime : Sleep(d) /\ UNCHANGED connaside

\* The event loop runs the coroutine, and an attempt and a sleep end.
ConnFair == WF_vars(ConnNext)

ConnSpec == Init /\ [][ConnNext]_vars /\ ConnFair

\* ------------------------------------------------------------------ claims

\* The entry of the ended call `last` when it was alone on its order and the
\* episode before it was the single call k, which returned.
AfterOne(k) ==
  /\ last.solo
  /\ Len(last.prev) = 1
  /\ last.prev[1].k = k
  /\ last.prev[1].out = "ok"

\* C1: a get that runs right after an update_status(id, S) that returned,
\* with no other call on that order from the begin of the update to the end
\* of the get, does not report the order missing and returns status S.
C1_GetAfterUpdateStatus ==
  (last.kind = "get" /\ AfterOne("update_status"))
    => /\ last.res # "NotFound"
       /\ last.res = "ok" => last.val.status = last.prev[1].s

C1_Witness ==
  /\ last.kind = "get"
  /\ AfterOne("update_status")
  /\ last.res = "ok"
  /\ last.val.status = "PAID"
  /\ last.raw # <<>>

\* The episode before the (solo) ended call `last` was one get and one
\* update_status in flight together, and both returned.
AfterGetUpdateRace ==
  /\ last.solo
  /\ Len(last.prev) = 2
  /\ {last.prev[1].k, last.prev[2].k} = {"get", "update_status"}
  /\ last.prev[1].out = "ok"
  /\ last.prev[2].out = "ok"

\* The status asked for by the update_status of that episode.
RaceStatus ==
  IF last.prev[1].k = "update_status" THEN last.prev[1].s ELSE last.prev[2].s

\* C2: a get that begins after a concurrent get and update_status(id, S)
\* have both returned, with no other call on the order meanwhile, returns
\* status S.
C2_GetAfterRace ==
  (last.kind = "get" /\ last.res = "ok" /\ AfterGetUpdateRace)
    => last.val.status = RaceStatus

\* Two update_status calls with different statuses were in flight together
\* on order id, both have returned, and no call on the order began since.
TwoUpdatesEnded(id) ==
  /\ \A r \in Req : ~(Running(r) /\ req[r].oid = id)
  /\ Len(ep[id].cur) = 2
  /\ \A i \in 1..2 :
       ep[id].cur[i].k = "update_status" /\ ep[id].cur[i].out = "ok"
  /\ ep[id].cur[1].s # ep[id].cur[2].s

\* C3: once two concurrent update_status calls on an order have both
\* returned, the cache entry of the order, if present, carries the status
\* of the store row.
C3_CacheAgreesAfterTwoUpdates ==
  \A id \in OrderIds :
    (TwoUpdatesEnded(id) /\ RedisGet(cache, OrderCacheKey(id)) # <<>>)
      => ModelValidateJson(RedisGet(cache, OrderCacheKey(id))).status
           = orders[id].status


\* C4 (P1, cache short-circuit): a get whose cache lookup finds an entry
\* under order:{id} returns the value of that entry and makes no store read.
C4_CacheHitReadsNoStore ==
  (last.kind = "get" /\ last.raw # <<>>)
    => /\ last.res = "ok"
       /\ last.val = ModelValidateJson(last.raw)
       /\ last.reads = 0

C4_Witness ==
  /\ last.kind = "get"
  /\ last.raw # <<>>
  /\ last.res = "ok"
  /\ last.reads = 0
  /\ last.val.id = last.oid

\* A get that begins now on order id, as far as its cache lookup.
GetNow(id) == [IdleReq EXCEPT !.kind = "get", !.pc = "get_cache", !.oid = id]

\* C5 (P2, miss-then-populate): a get that missed the cache and found the
\* row returns after exactly one store read; it leaves a live cache entry
\* holding the value it returns, so that a get that begins then returns that
\* value from the cache without a store read; and with no other call on the
\* order meanwhile that value is the store row.
C5_MissThenPopulate ==
  [][\A r \in Req :
       (/\ req[r].kind = "get"
        /\ req[r].pc = "get_set"
        /\ req'[r].pc = "idle"
        /\ last'.res = "ok")
         => /\ last'.raw = <<>>
            /\ last'.reads = 1
            /\ RedisGet(cache', OrderCacheKey(last'.oid))
                 = ModelDumpJson(last'.val)
            /\ cache'[OrderCacheKey(last'.oid)].ttl = CacheTtl
            /\ OnCached(GetNow(last'.oid),
                        RedisGet(cache', OrderCacheKey(last'.oid)))
                 = Finished(GetNow(last'.oid), "ok", last'.val)
            /\ last'.solo => last'.val = OrderRead(orders'[last'.oid])]_vars

C5_Witness ==
  /\ last.kind = "get"
  /\ last.raw = <<>>
  /\ last.res = "ok"
  /\ last.solo
  /\ last.reads = 1
  /\ RedisGet(cache, OrderCacheKey(last.oid)) = ModelDumpJson(last.val)

\* C6 (P3, not-found): a get or an update_status on an id that has no row
\* in the store raises "Order not found" and returns no order; the one other
\* outcome is a get whose Redis lookup itself raised.
C6_NotFound ==
  (last.kind \in {"get", "update_status"} /\ ~HasRow(last.oid))
    => /\ last.val = NullOrder
       /\ \/ last.res = "NotFound"
          \/ last.kind = "get" /\ last.res = "CacheError" /\ last.reads = 0

C6_Witness ==
  /\ last.kind = "update_status"
  /\ ~HasRow(last.oid)
  /\ last.res = "NotFound"
  /\ Len(last.prev) = 1
  /\ last.prev[1].k = "get"
  /\ last.prev[1].out = "NotFound"


ServiceCalls == {"get_order_for_user", "update_status_for_user"}

\* C7 (P4, ownership isolation): get_order_for_user and
\* update_status_for_user on an order that had its row when the call began
\* return the order to its owner, the update with the status asked for, and
\* raise Forbidden for any other user, whether the cache lookup found the
\* entry or not; the one other outcome is a Redis call that raised.
C7_OwnershipIsolation ==
  (last.kind \in ServiceCalls /\ last.had)
    => /\ last.res \in {"ok", "Forbidden", "CacheError"}
       /\ last.res = "ok" =>
            /\ orders[last.oid].user_id = last.user
            /\ last.val.id = last.oid
            /\ last.val.user_id = last.user
            /\ last.kind = "update_status_for_user" /\ last.solo
                 => last.val.status = last.status
       /\ last.res = "Forbidden" =>
            /\ orders[last.oid].user_id # last.user
            /\ last.val = NullOrder

\* The other user was refused an update on a cache miss, after the owner
\* had read the order.
C7_Witness ==
  /\ last.kind = "update_status_for_user"
  /\ last.had
  /\ last.res = "Forbidden"
  /\ last.raw = <<>>
  /\ last.solo
  /\ Len(last.prev) = 1
  /\ last.prev[1].k = "get_order_for_user"
  /\ last.prev[1].out = "ok"
  /\ orders[last.oid].status = "PENDING"

\* C8: on an id that has no row in the store, get_order_for_user and
\* update_status_for_user raise NotFound whoever asks, never Forbidden; the
\* one other outcome is a Redis lookup that raised.
C8_NotFoundBeforeForbidden ==
  (last.kind \in ServiceCalls /\ ~HasRow(last.oid))
    => /\ last.val = NullOrder
       /\ last.res \in {"NotFound", "CacheError"}
       /\ last.res = "CacheError" => last.reads = 0

\* Both users were answered NotFound on the same missing id.
C8_Witness ==
  /\ last.kind = "update_status_for_user"
  /\ ~HasRow(last.oid)
  /\ last.res = "NotFound"
  /\ last.user = 2
  /\ Len(last.prev) = 1
  /\ last.prev[1].k = "get_order_for_user"
  /\ last.prev[1].out = "NotFound"
  /\ orders = <<>>

\* C9 (P6, publish-on-create): a create_order that returned made exactly one
\* publish_new_order call, with the id of the order it created and returns;
\* the ids published are, in order, the ids the create_order calls returned.
C9_PublishOnCreate ==
  /\ (last.kind = "create_order" /\ last.res = "ok")
       => /\ last.npub = 1
          /\ last.val.id = last.oid
          /\ orders[last.oid].user_id = last.user
          /\ Len(published) > 0
          /\ published[Len(published)] = last.val.id
  /\ published = returned
  /\ \A i, j \in 1..Len(published) :
       published[i] = published[j] => i = j

C9_Witness ==
  /\ last.kind = "create_order"
  /\ last.res = "ok"
  /\ published = <<last.val.id>>

\* C10: a create_order that raised because publish_new_order raised leaves
\* the order row in the store, with the owner of the call and, as long as no
\* other call on the order has begun, status PENDING; a get_order_for_user of the owner that runs next, with no other call on
\* the order in between, does not report it missing and returns it with
\* status PENDING.
C10_PublishFailureKeepsOrder ==
  /\ (last.kind = "create_order" /\ last.res = "PublishError")
       => /\ HasRow(last.oid)
          /\ orders[last.oid].id = last.oid
          /\ orders[last.oid].user_id = last.user
          /\ (last.solo /\ ep[last.oid].cur[1].k = "create_order")
               => orders[last.oid].status = "PENDING"
  /\ (/\ last.kind = "get_order_for_user"
      /\ last.solo
      /\ Len(last.prev) = 1
      /\ last.prev[1].k = "create_order"
      /\ last.prev[1].out = "PublishError")
       => /\ last.res \in {"ok", "Forbidden", "CacheError"}
          /\ last.res = "ok" =>
               last.val.id = last.oid /\ last.val.status = "PENDING"

C10_Witness ==
  /\ last.kind = "get_order_for_user"
  /\ last.solo
  /\ Len(last.prev) = 1
  /\ last.prev[1].k = "create_order"
  /\ last.prev[1].out = "PublishError"
  /\ last.res = "ok"
  /\ last.val.status = "PENDING"
  /\ published = <<>>

\* C11: a create whose INSERT was committed returns the read model of the
\* order even when the cache write that follows the commit raises: no
\* create_order call ends with the error of the cache.
C11_CreateSurvivesCacheFailure ==
  (last.kind = "create_order" /\ HasRow(last.oid))
    => last.res # "CacheError"

\* The rows of table u with the email.
WithEmail(u, email) == {i \in 1..Len(u) : u[i].email = email}

\* C12 (P7, duplicate registration): a register that runs with no other
\* register in flight creates the user when no row has the email (a new row
\* with a fresh id, returned as id and email, the other rows untouched), and
\* fails with email_exists when a row has it, leaving the users table, the
\* first user's id and email included, as it was.
C12_DuplicateRegistration ==
  (alast.kind = "register" /\ alast.solo)
    => IF WithEmail(alast.before, alast.email) # {}
         THEN /\ alast.res = "email_exists"
              /\ alast.val = <<>>
              /\ alast.after = alast.before
         ELSE /\ alast.res = "ok"
              /\ Len(alast.after) = Len(alast.before) + 1
              /\ SubSeq(alast.after, 1, Len(alast.before)) = alast.before
              /\ alast.after[Len(alast.after)].email = alast.email
              /\ alast.val.email = alast.email
              /\ alast.val.id = alast.after[Len(alast.after)].id
              /\ \A i \in 1..Len(alast.before) :
                   alast.before[i].id # alast.val.id

\* The second register of an email, with another password, was refused.
C12_Witness ==
  /\ alast.kind = "register"
  /\ alast.solo
  /\ alast.res = "email_exists"
  /\ Len(alast.before) = 1
  /\ alast.before[1].email = alast.email
  /\ alast.before[1].id = 1
  /\ ~verify_password(alast.password, alast.before[1].password_hash)
  /\ users = alast.before

\* C13: when two register calls with the same email are in flight together,
\* no two rows ever share an email, and of the two calls one succeeds and the
\* other fails with email_exists.
C13_ConcurrentRegister ==
  /\ \A i, j \in 1..Len(users) : users[i].email = users[j].email => i = j
  /\ (alast.kind = "register" /\ alast.peer # "")
       => {alast.res, alast.peer} = {"ok", "email_exists"}

\* The entries of table u that login(email, password) accepts.
Accepted(u, email, password) ==
  {i \in WithEmail(u, email) :
     \E s \in Salts : u[i].password_hash = hash_password(password, s)}

\* The outcome of the login that ended last.
LoginOutcome ==
  alast.kind = "login"
    => IF Accepted(alast.before, alast.email, alast.password) = {}
         THEN alast.res = "bad_credentials" /\ alast.val = <<>>
         ELSE /\ alast.res = "ok"
              /\ alast.val.token_type = "bearer"
              /\ \E i \in Accepted(alast.before, alast.email, alast.password) :
                   alast.val.access_token.sub = Digits(alast.before[i].id)

\* C19: login fails with bad_credentials when no user has the email or the
\* password does not verify against the stored hash, otherwise it issues a
\* token whose subject is the decimal string of the user's id; the step of a
\* login leaves the users table as it was.
C19_Login ==
  [][(calls' # calls /\ areq' = areq)
       => (users' = users /\ alast'.before = users /\ LoginOutcome')]_vars

\* The second user logged in and got a token for "2".
C19_Witness ==
  /\ alast.kind = "login"
  /\ alast.res = "ok"
  /\ Len(users) = 2
  /\ alast.email = users[2].email
  /\ alast.val.access_token.sub = <<2>>

\* The step is a list request answered.
ListStep == calls' # calls /\ req' = req

\* The ids of the orders of user u in the store.
OrdersOf(u) == {id \in 1..Len(orders) : orders[id].user_id = u}

\* C14: list_for_user(u) returns exactly the orders of the store whose
\* user_id is u, once each, each as the store row is at that moment (its
\* current status included), newest created_at first.
C14_ListForUser ==
  [][(ListStep /\ listed'.kind = "list_for_user")
       => LET v == listed'.val
          IN /\ listed'.res = "ok"
             /\ {v[i] : i \in 1..Len(v)}
                  = {OrderRead(orders[id]) : id \in OrdersOf(listed'.user)}
             /\ Len(v) = Cardinality(OrdersOf(listed'.user))
             /\ \A i, j \in 1..Len(v) :
                  i < j => v[i].created_at > v[j].created_at]_vars

\* Two orders of a user listed, the newer first, the older with the status
\* an update gave it.
C14_Witness ==
  /\ listed.kind = "list_for_user"
  /\ Len(listed.val) = 2
  /\ listed.val[1].id = 2
  /\ listed.val[2].id = 1
  /\ listed.val[2].status = "PAID"
  /\ listed.val[1].status = "PENDING"

\* C15: list_for_user bypasses the cache: its step leaves every cache entry
\* as it was, and every order it returns is the store row, whatever the
\* cache holds under the order's key.
C15_ListBypassesCache ==
  [][(ListStep /\ listed'.kind = "list_for_user")
       => /\ cache' = cache
          /\ \A i \in 1..Len(listed'.val) :
               /\ listed'.val[i].id \in OrdersOf(listed'.user)
               /\ listed'.val[i] = OrderRead(orders[listed'.val[i].id])]_vars

\* An order was listed with the status of the store while the cache held
\* a live entry with another status for it.
C15_Witness ==
  /\ listed.kind = "list_for_user"
  /\ Len(listed.val) = 1
  /\ LET id == listed.val[1].id
     IN /\ RedisGet(cache, OrderCacheKey(id)) # <<>>
        /\ ModelValidateJson(RedisGet(cache, OrderCacheKey(id))).status
             = "PENDING"
        /\ orders[id].status = "PAID"
        /\ listed.val[1].status = "PAID"

\* C20: the list endpoint answers 403 without calling the service when the
\* path user_id is not the authenticated user's id, and what it returns to
\* an authenticated user are orders of that user only.
C20_ListEndpointForbidden ==
  [][(ListStep /\ listed'.kind = "list_endpoint")
       => /\ (listed'.cur # 0 /\ listed'.user # listed'.cur)
               => /\ listed'.res = "Forbidden"
                  /\ listed'.nsvc = 0
                  /\ listed'.val = <<>>
          /\ listed'.res = "ok"
               => /\ listed'.cur \in Users
                  /\ listed'.nsvc = 1
                  /\ \A i \in 1..Len(listed'.val) :
                       /\ listed'.val[i].user_id = listed'.cur
                       /\ orders[listed'.val[i].id].user_id = listed'.cur]_vars

\* A user was refused the list of another user who has an order.
C20_Witness ==
  /\ listed.kind = "list_endpoint"
  /\ listed.res = "Forbidden"
  /\ listed.cur = 2
  /\ OrdersOf(listed.user) # {}

\* The positions of update_status_for_user after its ownership test.
UpdatePcs == {"upd_db", "upd_commit", "upd_refresh", "upd_del", "upd_set"}

\* C18: update_status_for_user verifies ownership before it updates. No
\* request of another user is ever past the ownership test of an order; a
\* store row changes only in the commit of an update_status_for_user of the
\* order's owner, and only in its status; and the step in which a call ends
\* with Forbidden, like every step of that call, leaves the store as it was.
C18_OwnershipBeforeUpdate ==
  /\ [](\A r \in Req :
          (req[r].kind = "update_status_for_user" /\ req[r].pc \in UpdatePcs
             /\ HasRow(req[r].oid))
            => req[r].user = orders[req[r].oid].user_id)
  /\ [][/\ \A id \in 1..Len(orders) :
             orders'[id] # orders[id]
               => \E r \in Req :
                    /\ req[r].kind = "update_status_for_user"
                    /\ req[r].pc = "upd_commit"
                    /\ req[r].oid = id
                    /\ req[r].user = orders[id].user_id
                    /\ orders'[id] = [orders[id] EXCEPT !.status = req[r].status]
        /\ \A r \in Req :
             (Running(r) /\ HasRow(req[r].oid)
                /\ req[r].user # orders[req[r].oid].user_id
                /\ req'[r] # req[r])
               => orders' = orders
        /\ \A r \in Req :
             (Running(r) /\ ~Running(r)' /\ last'.res = "Forbidden")
               => orders' = orders /\ last'.user # orders[last'.oid].user_id]_vars

\* The other user asked for CANCELED after the owner had set PAID, was
\* refused, and the row is still PAID.
C18_Witness ==
  /\ last.kind = "update_status_for_user"
  /\ last.res = "Forbidden"
  /\ last.status = "CANCELED"
  /\ last.solo
  /\ Len(last.prev) = 1
  /\ last.prev[1].k = "update_status_for_user"
  /\ last.prev[1].out = "ok"
  /\ last.prev[1].s = "PAID"
  /\ orders[last.oid].status = "PAID"

\* C17 (cache primitives round trip): get_cached on a key never set returns
\* None; right after set_cached(key, v) the key reads back as a value equal
\* to v, whatever it held before, and the get_cached that follows returns
\* it; right after invalidate_key(key) the key reads back as None, and so
\* answers the get_cached that follows; invalidate_key on an absent key
\* changes nothing; no primitive touches another key, and get_cached
\* changes no entry.
C17_CachePrimitives ==
  [][/\ cop'.op = "set"
          => /\ get_cached(cache', cop'.key) = cop'.val
             /\ \A k \in CacheKeys \ {cop'.key} : cache'[k] = cache[k]
     /\ cop'.op = "get"
          => /\ cache' = cache
             /\ cop'.key \notin cop.seen => cop'.got = NullOrder
             /\ (cop.op = "set" /\ cop.key = cop'.key) => cop'.got = cop.val
             /\ (cop.op = "delete" /\ cop.key = cop'.key)
                  => cop'.got = NullOrder
     /\ cop'.op = "delete"
          => /\ get_cached(cache', cop'.key) = NullOrder
             /\ \A k \in CacheKeys \ {cop'.key} : cache'[k] = cache[k]
             /\ get_cached(cache, cop'.key) = NullOrder => cache' = cache]_vars

\* A value was read back from one key while the other key, set before and
\* invalidated since, is absent.
C17_Witness ==
  /\ cop.op = "get"
  /\ cop.got \in CacheValues
  /\ cop.got.status = "SHIPPED"
  /\ cop.seen = CacheKeys
  /\ \E k \in CacheKeys \ {cop.key} : get_cached(cache, k) = NullOrder

\* C16 (the cache is optional): when a sequence of create, get,
\* update_status and list_for_user calls, made one at a time to a repository
\* with a Redis client, is made again to a repository built with redis=None
\* on a store of its own, each call of the second returns what the same call
\* of the first returned (the value, or NotFound), and after the last call
\* the second store holds what the first held.
C16_CacheOptional ==
  (replay.phase = 2 /\ AllIdle)
    => /\ replay.pos >= 1
            => LET now == ResultNow(replay.hist[replay.pos])
               IN /\ now.res = replay.outs[replay.pos].res
                  /\ now.val = replay.outs[replay.pos].val
                  /\ now.res \in {"ok", "NotFound"}
       /\ replay.pos = Len(replay.hist) => orders = replay.store

\* create, update_status, get made to both: the first repository answered
\* the get from its cache, the second from its store, both with PAID.
C16_Witness ==
  /\ replay.phase = 2
  /\ AllIdle
  /\ replay.pos = 3
  /\ Len(replay.hist) = 3
  /\ replay.hist[2].kind = "update_status"
  /\ replay.hist[3].kind = "get"
  /\ replay.outs[3].reads = 0
  /\ replay.outs[3].val.status = "PAID"
  /\ last.reads = 1
  /\ last.val.status = "PAID"
  /\ cache = [k \in CacheKeys |-> NoEntry]

\* C30: when the call that ended last is an update_status on an order that
\* has a row, however it ended, and no call on that order is in flight, the
\* cache entry of the order is absent or equal to the store row.
C30_CacheAbsentOrEqualAfterUpdate ==
  (/\ last.kind = "update_status"
   /\ HasRow(last.oid)
   /\ \A r \in Req : ~(Running(r) /\ req[r].oid = last.oid))
    => \/ RedisGet(cache, OrderCacheKey(last.oid)) = <<>>
       \/ ModelValidateJson(RedisGet(cache, OrderCacheKey(last.oid)))
            = OrderRead(orders[last.oid])

\* C24: every step a get takes from its cache lookup is one of three: the
\* lookup answers None and get goes on to the store; the lookup answers a
\* value and get returns it; or the lookup raises, and then get ends at once
\* with that error, having read nothing from the store (no fallback), given
\* no order, and without a second lookup (no retry). The store is reached
\* only on an answered miss, whether or not the order has a row.
C24_CacheFailureNotMasked ==
  [][\A r \in Req :
       (req[r].kind = "get" /\ req[r].pc = "get_cache" /\ req'[r] # req[r])
         => LET raw == RedisGet(cache, OrderCacheKey(req[r].oid))
            IN \/ /\ raw = <<>>
                  /\ req'[r].pc = "get_db"
                  /\ req'[r].reads = 0
               \/ /\ raw # <<>>
                  /\ req'[r].pc = "idle"
                  /\ last'.res = "ok"
                  /\ last'.val = ModelValidateJson(raw)
               \/ /\ req'[r].pc = "idle"
                  /\ last'.kind = "get"
                  /\ last'.res = "CacheError"
                  /\ last'.val = NullOrder
                  /\ last'.reads = 0
                  /\ orders' = orders
                  /\ cache' = cache]_vars

\* A get whose lookup raised although the order has a row and a live entry.
C24_Witness ==
  /\ last.kind = "get"
  /\ last.res = "CacheError"
  /\ last.reads = 0
  /\ HasRow(last.oid)
  /\ RedisGet(cache, OrderCacheKey(last.oid)) # <<>>

\* C25: the INSERT of a create adds exactly one row after the rows there
\* are, with status PENDING, the caller's owner_id as user_id and the items
\* and total_price of the payload, and leaves every other row as it was; no
\* other step of a create changes the store; a create that returns, returns
\* the read model of that row: equal to the row when nothing else is in
\* flight on the order, and in every case equal in all fields that no
\* update_status writes.
C25_CreateAddsOneRow ==
  /\ [][\A r \in Req :
          (req[r].kind = "create_order" /\ req'[r] # req[r])
            => IF req[r].pc = "create_commit"
                 THEN /\ Len(orders') = Len(orders) + 1
                      /\ SubSeq(orders', 1, Len(orders)) = orders
                      /\ LET row == orders'[Len(orders')]
                         IN /\ row.status = "PENDING"
                            /\ row.user_id = req[r].user
                            /\ row.items = req[r].data.items
                            /\ row.total_price = req[r].data.total_price
                            /\ row.id = Len(orders')
                            /\ req'[r].oid = row.id
                 ELSE orders' = orders]_vars
  /\ [](( /\ last.kind = "create_order"
          /\ last.res = "ok")
         => /\ HasRow(last.oid)
            /\ last.val.id = last.oid
            /\ last.val.user_id = last.user
            /\ [last.val EXCEPT !.status = ""]
                 = [OrderRead(orders[last.oid]) EXCEPT !.status = ""]
            /\ (last.solo /\ \A r \in Req : ~(Running(r) /\ req[r].oid = last.oid))
                 => /\ last.val = OrderRead(orders[last.oid])
                    /\ last.val.status = "PENDING")

\* The second user's create returned while the first user's order is in the
\* store: two rows, the older one untouched.
C25_Witness ==
  /\ last.kind = "create_order"
  /\ last.res = "ok"
  /\ last.solo
  /\ last.user = 2
  /\ last.oid = 2
  /\ orders[1].user_id = 1
  /\ last.val = OrderRead(orders[2])

\* C26: no step of any call changes the id, user_id, items, total_price or
\* created_at of a row that exists, or removes a row; the step of an
\* update_status that commits changes the status of its own row only, and to
\* the status asked for, and every other row not at all; so every row has
\* the user_id of the call that created it.
C26_UserIdImmutable ==
  /\ [][/\ Len(orders') >= Len(orders)
        /\ \A id \in 1..Len(orders) :
             orders'[id] = [orders[id] EXCEPT !.status = orders'[id].status]
        /\ \A r \in Req :
             (req[r].pc = "upd_commit" /\ req'[r] # req[r])
               => /\ orders'[req[r].oid].status = req[r].status
                  /\ \A id \in 1..Len(orders) :
                       id # req[r].oid => orders'[id] = orders[id]
                  /\ Len(orders') = Len(orders)]_vars
  /\ []((last.kind = "create_order" /\ last.res = "ok")
          => orders[last.oid].user_id = last.user)

\* An update of the second user's order has returned: the status changed,
\* the owner did not.
C26_Witness ==
  /\ last.kind = "update_status_for_user"
  /\ last.res = "ok"
  /\ last.user = 2
  /\ orders[last.oid].user_id = 2
  /\ orders[last.oid].status = last.status
  /\ orders[last.oid].status # "PENDING"

\* The cache differs from c at most in the entry of order id.
OnlyKey(c, d, id) ==
  \A k \in CacheKeys : k # OrderCacheKey(id) => d[k] = c[k]

\* The step ends call r with the error of the cache and changes nothing else.
RaisesCacheError(r) ==
  /\ req'[r].pc = "idle"
  /\ last'.res = "CacheError"
  /\ cache' = cache

\* C28: the steps of one update_status call come in one order, one at a
\* time: the SELECT (which reads the store row; the call never reads the
\* cache), the commit (which writes the status asked for), the refresh (which
\* reads the row back), the delete of the order's key, the set of that key.
\* The cache is left alone by the first three, the store by all but the
\* commit, and the value set is the read model of the row read back by the
\* refresh, with the configured TTL.
C28_UpdateStepOrder ==
  [][\A r \in Req :
       (req[r].kind = "update_status" /\ req'[r] # req[r])
         => LET q == req[r]
                n == req'[r]
                key == OrderCacheKey(q.oid)
            IN /\ q.raw = <<>>
               /\ q.pc \in {"upd_db", "upd_commit", "upd_refresh", "upd_del",
                            "upd_set"}
               /\ q.pc # "upd_commit" => orders' = orders
               /\ q.pc \in {"upd_db", "upd_commit", "upd_refresh"}
                    => cache' = cache
               /\ q.pc = "upd_db" =>
                    IF HasRow(q.oid)
                      THEN n.pc = "upd_commit" /\ n.order = orders[q.oid]
                      ELSE n.pc = "idle" /\ last'.res = "NotFound"
               /\ q.pc = "upd_commit" =>
                    /\ n.pc = "upd_refresh"
                    /\ orders'[q.oid].status = q.status
               /\ q.pc = "upd_refresh" =>
                    /\ n.pc = "upd_del"
                    /\ n.order = orders[q.oid]
               /\ q.pc = "upd_del" =>
                    \/ /\ n.pc = "upd_set"
                       /\ n.order = q.order
                       /\ RedisGet(cache', key) = <<>>
                       /\ OnlyKey(cache, cache', q.oid)
                    \/ RaisesCacheError(r)
               /\ q.pc = "upd_set" =>
                    \/ /\ n.pc = "idle"
                       /\ last'.res = "ok"
                       /\ last'.val = OrderRead(q.order)
                       /\ last'.raw = <<>>
                       /\ cache'[key] = [raw |-> ModelDumpJson(OrderRead(q.order)),
                                         ttl |-> CacheTtl]
                       /\ OnlyKey(cache, cache', q.oid)
                    \/ RaisesCacheError(r)]_vars

\* An update_status that went through all five steps while the entry
\* written by an earlier call was live: it returned what it set.
C28_Witness ==
  /\ last.kind = "update_status"
  /\ last.res = "ok"
  /\ last.solo
  /\ last.reads = 0
  /\ RedisGet(cache, OrderCacheKey(last.oid)) = ModelDumpJson(last.val)
  /\ last.val.status = last.status
  /\ orders[last.oid].status = last.status

\* The requests of one client, in the order they were dispatched.
HitsOf(client) == SelectSeq(hits, LAMBDA h : h.client = client)

\* Which of the requests hs of one client a limit of RateLimit per window
\* lets through: a window opens with the first request and with the first
\* one made Window or more after the opening of the window before; the
\* k-th request of a window passes exactly when k <= RateLimit.
RECURSIVE Verdicts(_, _, _)
Verdicts(hs, start, seen) ==
  IF hs = <<>> THEN <<>>
  ELSE LET t == Head(hs).at
           fresh == start < 0 \/ t >= start + Window
           s == IF fresh THEN t ELSE start
           k == IF fresh THEN 1 ELSE seen + 1
       IN <<k <= RateLimit>> \o Verdicts(Tail(hs), s, k)

\* C21: of the requests a client sends inside one bucket window the first
\* RateLimit are forwarded and every further one is answered 429 "Rate limit
\* exceeded"; the requests forwarded for a client inside the window of its
\* bucket never number more than RateLimit.
C21_RateLimit ==
  /\ \A client \in Clients :
       LET hs == HitsOf(client)
       IN /\ [i \in 1..Len(hs) |-> hs[i].forwarded] = Verdicts(hs, -1, 0)
          /\ buckets[client] # NoBucket =>
               Cardinality({i \in 1..Len(hs) :
                 /\ hs[i].forwarded
                 /\ hs[i].at >= buckets[client].reset_at - Window
                 /\ hs[i].at < buckets[client].reset_at}) <= RateLimit
  /\ \A i \in 1..Len(hits) :
       ~hits[i].forwarded =>
         hits[i].status = 429 /\ hits[i].detail = "Rate limit exceeded"

\* A client sent RateLimit + 1 requests inside one window and one more once
\* the window was over: the last of the window was refused, the next passed.
C21_Witness ==
  \E client \in Clients :
    LET hs == HitsOf(client)
    IN /\ Len(hs) = RateLimit + 2
       /\ hs[RateLimit + 1].at < hs[1].at + Window
       /\ hs[RateLimit + 1].status = 429
       /\ hs[RateLimit + 2].forwarded
       /\ \E other \in Clients \ {client} : Len(HitsOf(other)) > 0

C29_TransitionsUnconstrained ==
  /\ \A id \in 1..Len(orders) : orders[id].status \in Statuses
  /\ (last.kind = "update_status" /\ last.had /\ AllIdle)
       => /\ last.res \in {"ok", "CacheError"}
          /\ orders[last.oid].status = last.status
          /\ last.res = "ok" => /\ last.val.status = last.status
                               /\ last.val.id = last.oid

\* A canceled order set back to PENDING: the update before returned with
\* CANCELED, this one returned with PENDING.
C29_Witness ==
  /\ last.kind = "update_status"
  /\ last.res = "ok"
  /\ AfterOne("update_status")
  /\ last.prev[1].s = "CANCELED"
  /\ last.status = "PENDING"
  /\ orders[last.oid].status = "PENDING"
  /\ AllIdle

\* C23: when an update_status that has committed ends without returning,
\* because it was cancelled or because its cache delete or cache set raised,
\* that step leaves every row of the store as it is (nothing is rolled
\* back), the row has the new status when no other call ran on the order, and
\* the caller gets the error, not an order.
C23_CommitDurable ==
  [][\A r \in Req :
       (/\ req[r].kind = "update_status"
        /\ req[r].pc \in {"upd_refresh", "upd_del", "upd_set"}
        /\ req'[r].pc = "idle"
        /\ last'.res # "ok")
         => /\ orders' = orders
            /\ Len(ep[req[r].oid].cur) = 1
                 => orders'[req[r].oid].status = req[r].status
            /\ last'.kind = "update_status"
            /\ last'.res \in {"Cancelled", "CacheError"}
            /\ last'.res = "CacheError" => req[r].pc # "upd_refresh"
            /\ last'.val = NullOrder]_vars

\* An update of a PENDING order was cancelled after its commit: the row has
\* the new status.
C23_Witness ==
  /\ last.kind = "update_status"
  /\ last.res = "Cancelled"
  /\ AfterOne("create_order")
  /\ AllIdle
  /\ orders[last.oid].status = last.status
  /\ last.status # "PENDING"

\* Redis holds an entry for order id that differs from the store row.
Stale(id) ==
  /\ HasRow(id)
  /\ RedisGet(cache, OrderCacheKey(id)) # <<>>
  /\ RedisGet(cache, OrderCacheKey(id)) # ModelDumpJson(OrderRead(orders[id]))

C31_PublishAfterCommit ==
  /\ [](\A i \in 1..Len(published) : HasRow(published[i]))
  /\ [](\A i, j \in 1..Len(published) :
          published[i] = published[j] => i = j)
  /\ [][published' # published
          => /\ Len(published') = Len(published) + 1
             /\ SubSeq(published', 1, Len(published)) = published
             /\ published'[Len(published')] \in 1..Len(orders)
             /\ orders' = orders]_vars

\* Two create_order calls ran at the same time and both published: the
\* second order's id was published before the first one's.
C31_Witness ==
  /\ published = <<2, 1>>
  /\ Len(orders) = 2

\* C32: a get or an update_status that ends with NotFound has changed
\* nothing: its cache lookup and its SELECT leave the store and every cache
\* entry as they are, NotFound is raised by the SELECT that found no row, and
\* that step too changes neither the store nor the cache.
C32_NotFoundChangesNothing ==
  [][\A r \in Req :
       (req[r].kind \in {"get", "update_status"} /\ req'[r] # req[r])
         => /\ req[r].pc \in {"get_cache", "get_db", "upd_db"}
                 => orders' = orders /\ cache' = cache
            /\ (req'[r].pc = "idle" /\ last'.res = "NotFound")
                 => /\ req[r].pc \in {"get_db", "upd_db"}
                    /\ ~HasRow(req[r].oid)
                    /\ last'.val = NullOrder
                    /\ orders' = orders
                    /\ cache' = cache
                    /\ published' = published]_vars

\* An update_status of an order with no row ended with NotFound while the
\* other order has a row and a live entry.
C32_Witness ==
  /\ last.kind = "update_status"
  /\ last.res = "NotFound"
  /\ last.oid = 2
  /\ ~HasRow(2)
  /\ HasRow(1)
  /\ RedisGet(cache, OrderCacheKey(1)) # <<>>
  /\ RedisGet(cache, OrderCacheKey(2)) = <<>>

\* C33: every live cache entry is under the key of an order that has a row,
\* parses to a read model with that order's id, has the user_id, items,
\* total_price and created_at of the row, and a status the row has had at
\* some time up to now.
C33_CacheEntryWellFormed ==
  \A id \in OrderIds :
    LET raw == RedisGet(cache, OrderCacheKey(id))
        v == ModelValidateJson(raw)
    IN raw # <<>>
         => /\ HasRow(id)
            /\ v.id = id
            /\ v.user_id = orders[id].user_id
            /\ v.items = orders[id].items
            /\ v.total_price = orders[id].total_price
            /\ v.created_at = orders[id].created_at
            /\ v.status \in committed[id]

\* The second order's entry carries a status its row had before and no
\* longer has.
C33_Witness ==
  /\ HasRow(2)
  /\ RedisGet(cache, OrderCacheKey(2)) # <<>>
  /\ ModelValidateJson(RedisGet(cache, OrderCacheKey(2))).status
       # orders[2].status
  /\ ModelValidateJson(RedisGet(cache, OrderCacheKey(2))).status
       \in committed[2]

\* C34: a request answered 429 is not handed to the application and leaves
\* every bucket as it is; a request handed on leaves the buckets of the
\* other clients as they are and adds one to the count of its client's
\* bucket, keeping its reset_at, while the window of that bucket lasts; a
\* request of a client that has no bucket, or whose bucket's reset_at has
\* come, is handed on and gives the client a bucket with count 1 and reset_at
\* one window from now, so that a client that was refused is served again.
C34_BucketBookkeeping ==
  [][hits' # hits
       => /\ Len(hits') = Len(hits) + 1
          /\ LET h == hits'[Len(hits')]
                 old == buckets[h.client]
                 over == old = NoBucket \/ monotonic >= old.reset_at
             IN /\ h.at = monotonic
                /\ h.forwarded <=> h.status # 429
                /\ ~h.forwarded => buckets' = buckets
                /\ h.forwarded =>
                     /\ \A c \in Clients \ {h.client} : buckets'[c] = buckets[c]
                     /\ buckets'[h.client] =
                          IF over THEN Bucket(monotonic + Window, 1)
                          ELSE Bucket(old.reset_at, old.count + 1)
                /\ over => h.forwarded
                /\ (~over /\ old.count < RateLimit) => h.forwarded]_vars

\* A client that was refused has been served again at the reset_at of its
\* bucket: its new bucket counts one request.
C34_Witness ==
  /\ Len(hits) >= RateLimit + 2
  /\ LET h == hits[Len(hits)]
     IN /\ h.forwarded
        /\ h.at = monotonic
        /\ buckets[h.client] = Bucket(monotonic + Window, 1)
        /\ \E i \in 1..Len(hits) :
             /\ hits[i].client = h.client
             /\ ~hits[i].forwarded
             /\ hits[i].at + 1 = h.at

\* C35: for every client and every interval of one window length, whatever
\* its start, at most RateLimit requests of the client made in the interval
\* were forwarded.
C35_SlidingWindowLimit ==
  \A client \in Clients, t \in 0..MaxNow :
    Cardinality({i \in 1..Len(hits) :
                   /\ hits[i].client = client
                   /\ hits[i].forwarded
                   /\ hits[i].at >= t
                   /\ hits[i].at < t + Window}) <= RateLimit

\* The order ids publish_new_order has completed for.
PublishedIds == {published[i] : i \in 1..Len(published)}

\* C36: a message is acknowledged only by a handle_message that parsed it
\* and enqueued process_order for it once, in an earlier step, with the id
\* the publisher gave to to_bytes; every task enqueued belongs to one
\* message acknowledged or about to be; a message whose body does not parse
\* is no message of the publisher, enqueues nothing and is rejected, never
\* acknowledged.
C36_HandleMessage ==
  /\ [](\A i \in 1..Len(settled) :
          LET m == settled[i]
          IN /\ m.how = "ack"
                  => /\ Parses(m.body)
                     /\ \E id \in PublishedIds :
                          /\ m.body = to_bytes(id)
                          /\ m.task = Str(id)
                          /\ ToInt(m.task) = id
             /\ m.how = "reject" => m.task = <<>>
             /\ ~Parses(m.body) => m.how = "reject" /\ m.body \in Malformed)
  /\ [](Len(tasks) + Len(processed)
          = Cardinality({i \in 1..Len(settled) : settled[i].how = "ack"})
            + (IF consumer.pc = "ack" THEN 1 ELSE 0))
  /\ [][settled' # settled
          => /\ Len(settled') = Len(settled) + 1
             /\ settled'[Len(settled')].body = consumer.body
             /\ tasks' = tasks
             /\ settled'[Len(settled')].how = "ack"
                  => consumer.pc = "ack" /\ consumer.task # <<>>]_vars
  /\ [][tasks' # tasks /\ Len(tasks') > Len(tasks)
          => /\ tasks' = Append(tasks, consumer'.task)
             /\ consumer.pc = "idle"
             /\ consumer'.pc = "ack"
             /\ settled' = settled]_vars

\* The message of order 2 was acknowledged after its task was enqueued and
\* run, and a body that does not parse was rejected.
C36_Witness ==
  /\ \E i \in 1..Len(settled) :
       /\ settled[i].how = "ack"
       /\ settled[i].body = to_bytes(2)
       /\ settled[i].task = Str(2)
  /\ \E i \in 1..Len(settled) :
       settled[i].how = "reject" /\ settled[i].body \in Malformed
  /\ processed = <<2>>

\* Every attempt of connect_rabbit but the last one has failed.
EarlierFailed ==
  \A i \in 1..(Len(conn.tries) - 1) : conn.tries[i].result \in ConnectErrors

\* C37: connect_rabbit ends, by returning or by raising. It returns the
\* connection of the first attempt that succeeded; two attempts lie at
\* least one second apart, a failed attempt being followed by the sleep;
\* no attempt starts at or after the deadline; it raises only once the
\* deadline is reached, after at least one attempt, all failed, and with the
\* last failure; and having ended it does nothing more.
C37_ConnectTerminates ==
  /\ <>(conn.pc \in {"returned", "raised"})
  /\ [](conn.pc = "returned"
          => /\ conn.tries # <<>>
             /\ conn.tries[Len(conn.tries)].result = "ok"
             /\ EarlierFailed)
  /\ [](conn.pc # "returned"
          => \A i \in 1..Len(conn.tries) :
               conn.tries[i].result \in ConnectErrors)
  /\ [](\A i \in 1..Len(conn.tries) : conn.tries[i].at < conn.deadline)
  /\ [](\A i \in 1..(Len(conn.tries) - 1) :
          conn.tries[i + 1].at >= conn.tries[i].at + 1)
  /\ [](conn.pc = "raised"
          => /\ conn.time >= conn.deadline
             /\ conn.tries # <<>>
             /\ conn.last = conn.tries[Len(conn.tries)].result
             /\ conn.last \in ConnectErrors)
  /\ [][/\ conn.pc = "attempt" /\ conn'.pc # "returned"
          => conn'.pc = "sleep" /\ conn'.last \in ConnectErrors
        /\ conn.pc = "sleep" => conn'.pc = "test" /\ conn'.time >= conn.time + 1
        /\ conn.pc \in {"returned", "raised"} => conn' = conn
        /\ conn'.deadline = conn.deadline]_vars

\* Three attempts failed, the last with a timeout, the deadline passed and
\* RuntimeError was raised.
C37_Witness ==
  /\ conn.pc = "raised"
  /\ Len(conn.tries) = 3
  /\ conn.last = "TimeoutError"
  /\ conn.time >= conn.deadline

\* C38: every order id publish_new_order completed for is eventually passed
\* to process_order, and process_order runs for published ids only.
C38_EndToEndNotification ==
  /\ \A id \in OrderIds :
       (id \in PublishedIds) ~> (\E i \in 1..Len(processed) : processed[i] = id)
  /\ [](\A i \in 1..Len(processed) : processed[i] \in PublishedIds)

====
